---------------------------- MODULE Spec2Model ----------------------------
(***************************************************************************)
(* A model of the piano-trainer application: the frequency classifier      *)
(* (utils/audioHelpers.ts), the pitch-detector hook with its Stability     *)
(* Gate (hooks/usePitchDetector), the story text generator (utils/genai.ts)*)
(* and the game session controller (App).                                  *)
(*                                                                         *)
(* Representation of a frequency.  Math.log2 cannot be computed over the   *)
(* integers, so a positive frequency f is represented by its continuous    *)
(* MIDI pitch 69 + 12*log2(f/440) on a grid of PitchRes points per         *)
(* semitone; the map f |-> pitch is strictly increasing, 27.5 Hz is pitch  *)
(* 21 exactly and 4186 Hz is pitch 107.99996, just under 108 (C8 itself is *)
(* 4186.009 Hz).  Everything the code does after the logarithm (rounding,  *)
(* the snap, the modulo, the octave, the range test) is computed.          *)
(***************************************************************************)
EXTENDS Integers, Sequences, FiniteSets, TLC

VARIABLES
    clsFreq,      \* classifier harness: the frequency handed to getNoteFromFrequency
    clsResult,    \* classifier harness: what it returned (NotRun before the call)
    \* usePitchDetector: React state
    status, currentNote, history, error,
    \* usePitchDetector: refs (an audio context, a stream and a pitch detector are
    \* named by the startListening call that created them; 0 is null)
    audioContextRef, streamRef, pitchDetectorRef, isListeningRef,
    candidateNoteRef,
    sinceCandidateStart,  \* Date.now() - candidateStartTimeRef.current at the last callback
    currentStableNoteRef,
    \* usePitchDetector: the asynchronous environment
    callPc,       \* per startListening call: where it is suspended
    liveStreams,  \* streams acquired whose tracks have not been stopped
    pending,      \* per pitch detector: getPitch requests whose callback is outstanding
    log,          \* observer: the callbacks delivered since the last stopListening
    \* App: React state
    gameMode, targetNote, score, isMatched, perfectAttempt, showReward,
    storyQueue, queueIndex, storyText, isGeneratingStory,
    flashcardHistory, flashcardIndex,
    \* App: refs (timer id 0 is null, session id 0 is "")
    processingMatchRef, matchTimerRef, currentSessionIdRef,
    \* App: the asynchronous environment
    timers,       \* pending scheduled advances: id and the handleNext closure to call
    rewardTimers, \* number of pending reward hides (line 430)
    sessions,     \* startStorySession calls suspended at an await
    minted,       \* number of session ids drawn so far
    ev,           \* observer: what the last step was
    speech,       \* one call of generateSpeech: where it is, and what it has done
    player        \* App: the narration output (its context, currentSourceRef, the
                  \* playAudio calls and the sources that are sounding)

clsVars == <<clsFreq, clsResult>>

detState == <<status, currentNote, history, error>>

gateRefs == <<candidateNoteRef, sinceCandidateStart, currentStableNoteRef>>

detRefs == <<audioContextRef, streamRef, pitchDetectorRef, isListeningRef>>

detVars == <<detState, gateRefs, detRefs, (<<callPc, liveStreams, pending>>)>>

appState ==
    <<gameMode, targetNote, score, isMatched, perfectAttempt, showReward,
      storyQueue, queueIndex, storyText, isGeneratingStory,
      flashcardHistory, flashcardIndex>>

appRefs == <<processingMatchRef, matchTimerRef, currentSessionIdRef>>

appEnv == <<timers, rewardTimers, sessions, minted>>

appVars == <<appState, appRefs, appEnv, ev>>

vars == <<clsVars, detVars, appVars, log, speech, player>>

---------------------------------------------------------------------------
(* Bounds of the model *)

\* grid points per semitone of the continuous MIDI pitch
PitchRes == 4

\* startListening calls in one run of the application
MaxStarts == 1

\* callbacks recorded by the observer of the Stability Gate
MaxLog == 5

\* the letters and octaves generateRandomNote draws from (of C..B and 3..5)
TargetLetters == {"C", "D"}

\* SESSION_LENGTH, INITIAL_AUDIO_BATCH and the background batch size, scaled
SessionLen == 2

InitialBatch == 1

FillBatch == 1

\* story sessions started in one run
MaxSessions == 2

\* matches counted between two resets of the score
MaxScore == 2

\* targets in the flashcard history
MaxFlashcards == 2

\* reward hides pending at once
MaxRewardTimers == 1

\* notes committed in one run of the application
MaxCommits == 3

\* the callbacks of a flashcard round
MaxRoundLog == 6

\* calls of start() on one capture session
MaxHookStarts == 2

\* calls of playAudio on one narration output
MaxPlays == 4

---------------------------------------------------------------------------
(* utils/audioHelpers.ts *)

NOTE_NAMES == <<"C", "C#", "D", "D#", "E", "F", "F#", "G", "G#", "A", "A#", "B">>

NATURAL_NOTES == <<"C", "D", "E", "F", "G", "A", "B">>

sharpIndices == {1, 3, 6, 8, 10}

\* MIDI numbers of the two ends of the accepted range: 27.5 Hz (A0), 4186 Hz (C8)
MIDI_A0 == 21

MIDI_C8 == 108

Null == [null |-> TRUE]

NullStr == "null"

\* frequencies: absent (undefined, null, NaN), zero, negative, or positive with a pitch
AbsentHz == [kind |-> "absent", pitch |-> 0]

Hz(p) == [kind |-> "positive", pitch |-> p]

\* !frequency
Falsy(f) == f.kind \in {"absent", "zero"}

\* frequency > 0
Positive(f) == f.kind = "positive"

Abs(x) == IF x < 0 THEN -x ELSE x

\* rounding towards minus infinity
MathFloor(p) == p \div PitchRes

\* Math.round of a pitch given in grid units: floor(x + 0.5)
MathRound(p) == (2 * p + PitchRes) \div (2 * PitchRes)

SnapsDownOnTie(distBelow, distAbove) == distBelow <= distAbove

\* line 49: the snap goes down only when the lower neighbour is strictly nearer
SnapsDown(distBelow, distAbove) == distBelow < distAbove

NoSnap(rawMidi, midiNote) == midiNote

\* lines 40-54: the semitone after the snap-to-natural step
SnappedMidi(rawMidi, midiNote) ==
    LET distBelow == Abs(rawMidi - (midiNote - 1) * PitchRes)
        distAbove == Abs(rawMidi - (midiNote + 1) * PitchRes)
    IN  IF (midiNote % 12) \in sharpIndices
        THEN IF SnapsDown(distBelow, distAbove) THEN midiNote - 1 ELSE midiNote + 1
        ELSE midiNote

getNoteFromFrequency(frequency) ==
    \* !frequency || frequency < 27.5 || frequency > 4186 (every grid pitch from
    \* 108, 4186.009 Hz, upwards)
    IF \/ Falsy(frequency)
       \/ frequency.kind = "negative"
       \/ frequency.kind = "positive" /\ frequency.pitch < MIDI_A0 * PitchRes
       \/ frequency.kind = "positive" /\ frequency.pitch >= MIDI_C8 * PitchRes
    THEN Null
    ELSE LET rawMidi   == frequency.pitch
             midiNote  == SnappedMidi(rawMidi, MathRound(rawMidi))
             finalIndex == midiNote % 12
         IN  [note      |-> NOTE_NAMES[finalIndex + 1],
              octave    |-> (midiNote \div 12) - 1,
              frequency |-> frequency,
              cents     |-> 0]

formatNoteDisplay(note) == note.note


---------------------------------------------------------------------------
(* hooks/usePitchDetector *)

STABILITY_THRESHOLD_MS == 100

HISTORY_LIMIT == 5

\* Time.  The code reads the clock only in now - candidateStartTimeRef.current
\* (line 97), so the model keeps that difference: it is 0 when the candidate is
\* set (lines 109-110), grows by the gap between two callbacks, and is kept up to
\* one past the threshold, beyond which line 97 no longer distinguishes values.
ElapsedCap == STABILITY_THRESHOLD_MS + 1

Min(a, b) == IF a < b THEN a ELSE b

ElapsedSinceLastCallback(since, gap) == Min(gap, ElapsedCap)

\* line 97: now - candidateStartTimeRef.current, `gap` ms after the last callback
Elapse(since, gap) == Min(since + gap, ElapsedCap)

Calls == 1 .. Len(callPc)

Bump(f, i, d) == [f EXCEPT ![i] = @ + d]

SubSeqTo(s, n) == SubSeq(s, 1, Min(Len(s), n))

\* the history kept oldest-first
updateHistoryAtEnd(prev, newNote) == SubSeqTo(Append(prev, newNote), HISTORY_LIMIT)

\* lines 64-72
updateHistory(prev, newNote) == SubSeqTo(<<newNote>> \o prev, HISTORY_LIMIT)

HoldAtLeast(elapsed) == elapsed >= STABILITY_THRESHOLD_MS

AnyLabel(label, stable) == TRUE

\* line 100: a new stable note differs from the one committed last
IsNewStable(label, stable) == label # stable

\* the sample commits as soon as the candidate has been held for the threshold
CommitsAtThreshold(label, elapsed) ==
    /\ label = candidateNoteRef
    /\ HoldAtLeast(elapsed)
    /\ IsNewStable(label, currentStableNoteRef)

\* lines 95-100: this sample commits
Commits(label, elapsed) ==
    /\ label = candidateNoteRef
    /\ (elapsed > STABILITY_THRESHOLD_MS)
    /\ IsNewStable(label, currentStableNoteRef)

CandidateKept == candidateNoteRef

\* line 118: silence resets the candidate
CandidateAfterSilence == NullStr

\* the loop not continued after a callback
NoRearm(p) == p

\* lines 118, 122-124 and 80-82: the request the loop issues after a callback
Rearm(p) ==
    IF pitchDetectorRef # 0 /\ isListeningRef THEN Bump(p, pitchDetectorRef, 1) ELSE p

\* lines 74-125: the callback of one getPitch request on detector d, delivered `gap`
\* ms after the previous callback with an error flag and a frequency
handlePitch(d, err, frequency, gap) ==
    LET elapsed  == Elapse(sinceCandidateStart, gap)
        detected == getNoteFromFrequency(frequency)
        answered == Bump(pending, d, -1)
    IN  /\ pending[d] > 0
        /\ UNCHANGED <<status, error, detRefs, callPc, liveStreams>>
        /\ IF ~isListeningRef
           THEN /\ pending' = answered
                /\ UNCHANGED <<currentNote, history, gateRefs>>
           ELSE IF err
           THEN /\ pending' = Rearm(answered)
                /\ sinceCandidateStart' = elapsed
                /\ UNCHANGED <<currentNote, history, candidateNoteRef, currentStableNoteRef>>
           ELSE /\ pending' = Rearm(answered)
                /\ IF Positive(frequency) /\ ~Falsy(frequency)
                   THEN IF detected # Null
                        THEN LET label == formatNoteDisplay(detected)
                             IN  IF label = candidateNoteRef
                                 THEN /\ sinceCandidateStart' = elapsed
                                      /\ UNCHANGED candidateNoteRef
                                      /\ IF Commits(label, elapsed)
                                         THEN /\ currentStableNoteRef' = label
                                              /\ currentNote' = detected
                                              /\ history' = updateHistory(history, detected)
                                         ELSE UNCHANGED <<currentStableNoteRef, currentNote, history>>
                                 ELSE /\ candidateNoteRef' = label
                                      /\ sinceCandidateStart' = 0
                                      /\ UNCHANGED <<currentStableNoteRef, currentNote, history>>
                        ELSE /\ sinceCandidateStart' = elapsed
                             /\ UNCHANGED <<candidateNoteRef, currentStableNoteRef, currentNote, history>>
                   ELSE /\ candidateNoteRef' = CandidateAfterSilence
                        /\ sinceCandidateStart' = elapsed
                        /\ UNCHANGED <<currentStableNoteRef, currentNote, history>>

\* lines 183-204, as a function of the refs it reads: what it leaves behind
StopEffects(stream) ==
    /\ isListeningRef' = FALSE
    /\ liveStreams' = IF stream # 0 THEN liveStreams \ {stream} ELSE liveStreams
    /\ streamRef' = 0
    /\ candidateNoteRef' = NullStr
    /\ currentStableNoteRef' = NullStr
    /\ status' = "ready"

\* lines 183-204
stopListening ==
    /\ StopEffects(streamRef)
    /\ UNCHANGED <<currentNote, history, error, audioContextRef, pitchDetectorRef,
                   sinceCandidateStart, callPc, pending>>

\* lines 127-140: startListening up to its first await; the new context is
\* suspended (resume is awaited) or running (getUserMedia is awaited next)
startListening(suspended) ==
    /\ status' = "loading"
    /\ error' = NullStr
    /\ audioContextRef' = Len(callPc) + 1
    /\ callPc' = Append(callPc, IF suspended THEN "resume" ELSE "getUserMedia")
    /\ pending' = Append(pending, 0)
    /\ UNCHANGED <<currentNote, history, gateRefs, streamRef, pitchDetectorRef,
                   isListeningRef, liveStreams>>

\* line 139 resolves
ResumeResolved(c) ==
    /\ c \in Calls /\ callPc[c] = "resume"
    /\ callPc' = [callPc EXCEPT ![c] = "getUserMedia"]
    /\ UNCHANGED <<detState, gateRefs, detRefs, liveStreams, pending>>

\* lines 175-180: the catch block; setStatus('error') is followed by stopListening,
\* whose setStatus('ready') is the status the batch of updates leaves
StartFailed(c, stream, message) ==
    /\ callPc' = [callPc EXCEPT ![c] = "done"]
    /\ error' = message
    /\ StopEffects(stream)
    /\ UNCHANGED <<currentNote, history, audioContextRef, pitchDetectorRef,
                   sinceCandidateStart, pending>>

\* line 139 or line 143 rejects (permission denied, no input device)
AwaitRejected(c) ==
    /\ c \in Calls /\ callPc[c] \in {"resume", "getUserMedia"}
    /\ StartFailed(c, streamRef, "Failed to access microphone or load model.")

\* line 143 resolves and lines 144-173 run: the stream is stored; without ml5 the
\* call throws (the catch block then stops the stream just stored), otherwise the
\* detector is created and its model starts loading
GotUserMedia(c, ml5) ==
    /\ c \in Calls /\ callPc[c] = "getUserMedia"
    /\ IF ml5
       THEN /\ callPc' = [callPc EXCEPT ![c] = "model"]
            /\ streamRef' = c
            /\ liveStreams' = liveStreams \cup {c}
            /\ isListeningRef' = TRUE
            /\ UNCHANGED <<detState, gateRefs, audioContextRef, pitchDetectorRef, pending>>
       ELSE StartFailed(c, c, "ml5.js library not loaded.")

\* lines 162-172: the model-loaded callback of call c's detector
ModelLoaded(c) ==
    /\ c \in Calls /\ callPc[c] = "model"
    /\ callPc' = [callPc EXCEPT ![c] = "done"]
    /\ IF ~isListeningRef
       THEN UNCHANGED <<detState, gateRefs, detRefs, liveStreams, pending>>
       ELSE /\ status' = "listening"
            /\ pitchDetectorRef' = c
            /\ pending' = Bump(pending, c, 1)
            /\ UNCHANGED <<currentNote, history, error, gateRefs, audioContextRef,
                           streamRef, isListeningRef, liveStreams>>

\* the model never loads: ml5 does not call the callback of line 162
ModelUnavailable(c) ==
    /\ c \in Calls /\ callPc[c] = "model"
    /\ callPc' = [callPc EXCEPT ![c] = "failed"]
    /\ UNCHANGED <<detState, gateRefs, detRefs, liveStreams, pending>>

DetInit ==
    /\ status = "initial" /\ currentNote = Null /\ history = <<>> /\ error = NullStr
    /\ audioContextRef = 0 /\ streamRef = 0 /\ pitchDetectorRef = 0
    /\ isListeningRef = FALSE
    /\ candidateNoteRef = NullStr /\ sinceCandidateStart = 0
    /\ currentStableNoteRef = NullStr
    /\ callPc = <<>> /\ liveStreams = {} /\ pending = <<>>

---------------------------------------------------------------------------
(* The story text generator, utils/genai.ts.  A sentence is represented by *)
(* the template that produced it; the empty string is a value of its own.  *)

SESSION_LENGTH == 50

INITIAL_AUDIO_BATCH == 10

\* the batchSize passed to loadBackgroundAudio
BACKGROUND_BATCH == 10

\* `Play ${note}!`
PlayText(note) == [tpl |-> "Play", note |-> note]

\* `Help ${char?.characterName || 'your friend'} play the note ${note}!`
HelpText(note) == [tpl |-> "Help", note |-> note]

\* the i-th sentence written by the text service
ServiceText(i) == [tpl |-> "service", i |-> i]

EmptyString == [tpl |-> "empty"]

NoKey == [kind |-> "noKey"]

Throws == [kind |-> "throws"]

NonArray == [kind |-> "nonArray"]

\* an array of len sentences whose entry number empty (if any) is the empty string
ServiceArray(len, empty) ==
    [kind |-> "array",
     json |-> [i \in 1 .. len |-> IF i = empty THEN EmptyString ELSE ServiceText(i)]]

\* the service answers with an array of n sentences, none of them empty
ServiceSucceeds[n \in 0 .. SESSION_LENGTH] == {ServiceArray(n, 0)}

\* json[i] is a truthy value
Present(svc, i) ==
    /\ svc.kind = "array"
    /\ i <= Len(svc.json)
    /\ svc.json[i] # EmptyString

\* lines 14-91
generateStorySession(noteSequence, svc) ==
    IF svc.kind = "noKey"
    THEN [i \in 1 .. Len(noteSequence) |-> HelpText(noteSequence[i])]
    ELSE IF svc.kind = "throws"
    THEN [i \in 1 .. Len(noteSequence) |-> PlayText(noteSequence[i])]
    ELSE IF svc.kind = "array" /\ Len(svc.json) = Len(noteSequence)
    THEN svc.json
    ELSE [i \in 1 .. Len(noteSequence) |->
            IF Present(svc, i) THEN svc.json[i] ELSE PlayText(noteSequence[i])]

SpeechIdle ==
    speech = [pc |-> "idle", apiKey |-> FALSE, attempt |-> 0, requests |-> 0,
              waits |-> <<>>, answers |-> <<>>, result |-> "pending"]

\* line 113: error.status === 429 || error.message?.includes('429') || error.status === 503
Retryable(answer) == answer \in {"status429", "message429", "status503"}

\* the delay counted from one second
RetryDelayFromOneSecond(attempt) == 1000 * 2 ^ (attempt - 1)

\* line 114: 1000 * Math.pow(2, attempt)
RetryDelay(attempt) == 1000 * 2 ^ attempt

\* lines 93-98: the function is entered with the given attempt number
generateSpeech(sp, attempt) ==
    IF ~sp.apiKey
    THEN [sp EXCEPT !.pc = "done", !.attempt = attempt, !.result = NullStr]
    ELSE [sp EXCEPT !.pc = "request", !.attempt = attempt, !.requests = @ + 1]

\* line 98 resolves or rejects with the backend's answer; lines 110-124
SpeechAnswered(sp, answer) ==
    LET heard == [sp EXCEPT !.answers = Append(@, answer)]
    IN  IF answer = "audio" THEN [heard EXCEPT !.pc = "done", !.result = "audio"]
        ELSE IF answer = "noData" THEN [heard EXCEPT !.pc = "done", !.result = NullStr]
        ELSE IF (sp.attempt <= 3 /\ Retryable(answer))
        THEN [heard EXCEPT !.pc = "wait", !.waits = Append(@, RetryDelay(sp.attempt))]
        ELSE [heard EXCEPT !.pc = "done", !.result = NullStr]

\* line 116 resolves; line 117
SpeechRetried(sp) == generateSpeech(sp, sp.attempt + 1)

\* generateSpeechBatch, lines 128-149: one entry per text, audio data or null
SpeechResults[n \in 0 .. SESSION_LENGTH] == [1 .. n -> {NullStr, "audio"}]

\* the same with every request of the batch succeeding or every request failing
UniformSpeechResults[n \in 0 .. SESSION_LENGTH] ==
    {[i \in 1 .. n |-> a] : a \in {NullStr, "audio"}}

\* the same with every request of the batch succeeding
SpeechSucceeds[n \in 0 .. SESSION_LENGTH] == {[i \in 1 .. n |-> "audio"]}

---------------------------------------------------------------------------
(* The game session controller, App.  The state of the component, its refs *)
(* and its pending timers and story sessions are gathered in a record (a   *)
(* "world") so that a handler is a function from worlds to worlds, and a   *)
(* step is a handler followed by the renders and effects it leads to.      *)

isListening(st) == st = "listening"

\* the excludeNote argument of generateRandomNote when it is undefined
NoExclude == "none"

\* the draw without the do-while of lines 82-84
RandomNoteRepeating(letters, octaves, excludeNote) ==
    {[note |-> n, octave |-> o] : n \in letters, o \in octaves}

\* lines 82-88 of audioHelpers.ts: the notes a call can return when Math.random
\* selects among the given letters and octaves
RandomNoteFrom(letters, octaves, excludeNote) ==
    {[note |-> n, octave |-> o] : n \in letters \ {excludeNote}, o \in octaves}

\* lines 78-89 of audioHelpers.ts: the notes a call can return, over the alphabet
\* of the model
generateRandomNote(minOctave, maxOctave, excludeNote) ==
    RandomNoteFrom(TargetLetters, (minOctave .. maxOctave) \cap ({4}), excludeNote)

\* lines 251-260: sequences of n notes, each drawn excluding its predecessor
RECURSIVE NoteSequences(_)
NoteSequences(n) ==
    IF n = 0 THEN {<<>>}
    ELSE UNION {{Append(p, x) :
                    x \in generateRandomNote(3, 5,
                            IF p = <<>> THEN NoExclude ELSE p[Len(p)].note)} :
                 p \in NoteSequences(n - 1)}

noteNames(newNotes) == [i \in 1 .. Len(newNotes) |-> newNotes[i].note]

World ==
    [status |-> status, currentNote |-> currentNote,
     gameMode |-> gameMode, targetNote |-> targetNote, score |-> score,
     isMatched |-> isMatched, perfectAttempt |-> perfectAttempt,
     showReward |-> showReward, storyQueue |-> storyQueue,
     queueIndex |-> queueIndex, storyText |-> storyText,
     isGeneratingStory |-> isGeneratingStory,
     flashcardHistory |-> flashcardHistory, flashcardIndex |-> flashcardIndex,
     processingMatchRef |-> processingMatchRef, matchTimerRef |-> matchTimerRef,
     currentSessionIdRef |-> currentSessionIdRef,
     timers |-> timers, rewardTimers |-> rewardTimers,
     sessions |-> sessions, minted |-> minted,
     touch |-> {}]

\* the step leaves the controller as in world r
Install(r) ==
    /\ gameMode' = r.gameMode /\ targetNote' = r.targetNote /\ score' = r.score
    /\ isMatched' = r.isMatched /\ perfectAttempt' = r.perfectAttempt
    /\ showReward' = r.showReward /\ storyQueue' = r.storyQueue
    /\ queueIndex' = r.queueIndex /\ storyText' = r.storyText
    /\ isGeneratingStory' = r.isGeneratingStory
    /\ flashcardHistory' = r.flashcardHistory /\ flashcardIndex' = r.flashcardIndex
    /\ processingMatchRef' = r.processingMatchRef /\ matchTimerRef' = r.matchTimerRef
    /\ currentSessionIdRef' = r.currentSessionIdRef
    /\ timers' = r.timers /\ rewardTimers' = r.rewardTimers
    /\ sessions' = r.sessions /\ minted' = r.minted

\* the controller is as in world r
Installed(r) ==
    /\ gameMode = r.gameMode /\ targetNote = r.targetNote /\ score = r.score
    /\ isMatched = r.isMatched /\ perfectAttempt = r.perfectAttempt
    /\ showReward = r.showReward /\ storyQueue = r.storyQueue
    /\ queueIndex = r.queueIndex /\ storyText = r.storyText
    /\ isGeneratingStory = r.isGeneratingStory
    /\ flashcardHistory = r.flashcardHistory /\ flashcardIndex = r.flashcardIndex
    /\ processingMatchRef = r.processingMatchRef /\ matchTimerRef = r.matchTimerRef
    /\ currentSessionIdRef = r.currentSessionIdRef
    /\ timers = r.timers /\ rewardTimers = r.rewardTimers
    /\ sessions = r.sessions /\ minted = r.minted

\* lines 86-111: the component as mounted with the given mode; its effects have
\* run once and, the detector not listening, the reset of lines 323-337 has
\* changed nothing
Mounted(mode) ==
    [status |-> "initial", currentNote |-> Null,
     gameMode |-> mode, targetNote |-> Null, score |-> 0,
     isMatched |-> FALSE, perfectAttempt |-> TRUE, showReward |-> FALSE,
     storyQueue |-> <<>>, queueIndex |-> 0, storyText |-> EmptyString,
     isGeneratingStory |-> FALSE,
     flashcardHistory |-> <<>>, flashcardIndex |-> -1,
     processingMatchRef |-> FALSE, matchTimerRef |-> 0,
     currentSessionIdRef |-> 0,
     timers |-> {}, rewardTimers |-> 0, sessions |-> {}, minted |-> 0,
     touch |-> {}]

\* the observer's record of a step nothing is claimed about
Other == [op |-> "other"]

AppInit == Installed(Mounted("flashcard")) /\ ev = Other

\* clearTimeout(id)
TimersKept(pendingTimers, id) == pendingTimers

ClearTimeout(pendingTimers, id) == {t \in pendingTimers : t.id # id}

\* lines 343-347, 374-378 and 471-475
ClearMatchTimer(w) ==
    [w EXCEPT !.timers = ClearTimeout(w.timers, w.matchTimerRef),
              !.matchTimerRef = 0,
              !.processingMatchRef = FALSE]

\* lines 236-263: startStorySession up to its first await.  The session id is
\* Math.random().toString(36).substring(7); distinct draws are distinct
\* non-empty strings, here the serial number of the session (0 is "").
startStorySession(w, newNotes) ==
    LET sessionId == w.minted + 1
    IN  [w EXCEPT !.currentSessionIdRef = sessionId,
                  !.minted = sessionId,
                  !.isGeneratingStory = TRUE,
                  !.targetNote = Null,
                  !.storyText = EmptyString,
                  !.sessions = @ \cup {[sessionId |-> sessionId, newNotes |-> newNotes,
                                        pc |-> "text", service |-> ([kind |-> "pending"]),
                                        texts |-> <<>>, i |-> 0]}]

\* array[index] with the index counted from 0: undefined outside the array; an
\* undefined target is, like null, no target
ItemAt(array, index) ==
    IF index + 1 \in 1 .. Len(array) THEN array[index + 1] ELSE Null

\* lines 341-370, run with the state c its closure captured; reading .note of an
\* undefined queue item at line 355 throws and ends the handler there
handlePrevious(c, w) ==
    LET w1 == ClearMatchTimer(w)
    IN  IF c.gameMode = "story"
        THEN IF c.queueIndex > 0
             THEN LET newIndex == c.queueIndex - 1
                      item     == ItemAt(c.storyQueue, newIndex)
                  IN  IF item = Null
                      THEN [w1 EXCEPT !.queueIndex = newIndex]
                      ELSE [w1 EXCEPT !.queueIndex = newIndex,
                                      !.targetNote = item.note,
                                      !.storyText = item.text,
                                      !.isMatched = FALSE,
                                      !.perfectAttempt = TRUE,
                                      !.touch = @ \cup {"targetNote"}]
             ELSE w1
        ELSE IF c.flashcardIndex > 0
             THEN LET newIndex == c.flashcardIndex - 1
                  IN  [w1 EXCEPT !.flashcardIndex = newIndex,
                                 !.targetNote = ItemAt(c.flashcardHistory, newIndex),
                                 !.isMatched = FALSE,
                                 !.perfectAttempt = TRUE,
                                 !.touch = @ \cup
                                     IF ItemAt(c.flashcardHistory, newIndex) = Null
                                     THEN {} ELSE {"targetNote"}]
             ELSE w1

\* lines 372-411, run with the state c its closure captured
handleNext(c, w, rnd) ==
    LET w1 == ClearMatchTimer(w)
        w2 == IF c.gameMode = "story"
              THEN IF c.queueIndex + 1 < Len(c.storyQueue)
                   THEN [w1 EXCEPT !.queueIndex = c.queueIndex + 1,
                                   !.targetNote = ItemAt(c.storyQueue, c.queueIndex + 1).note,
                                   !.storyText = ItemAt(c.storyQueue, c.queueIndex + 1).text,
                                   !.touch = @ \cup {"targetNote"}]
                   ELSE startStorySession(w1, rnd.notes)
              ELSE IF c.flashcardIndex + 1 < Len(c.flashcardHistory)
                   THEN [w1 EXCEPT !.flashcardIndex = c.flashcardIndex + 1,
                                   !.targetNote = ItemAt(c.flashcardHistory, c.flashcardIndex + 1),
                                   !.touch = @ \cup {"targetNote"}]
                   ELSE LET currentNoteName == IF c.targetNote = Null THEN NoExclude
                                               ELSE c.targetNote.note
                            nextNote == rnd.pick[currentNoteName]
                        IN  [w1 EXCEPT !.flashcardHistory = Append(@, nextNote),
                                       !.flashcardIndex = @ + 1,
                                       !.targetNote = nextNote,
                                       !.touch = @ \cup {"targetNote", "flashcardHistory"}]
    IN  [w2 EXCEPT !.isMatched = FALSE, !.perfectAttempt = TRUE]

\* lines 466-493
toggleMode(c, w, mode, rnd) ==
    IF mode = c.gameMode THEN w
    ELSE LET w1 == [ClearMatchTimer(w) EXCEPT
                        !.gameMode = mode,
                        !.score = 0,
                        !.isMatched = FALSE,
                        !.targetNote = Null,
                        !.storyQueue = <<>>,
                        !.storyText = EmptyString,
                        !.flashcardHistory = <<>>,
                        !.flashcardIndex = -1,
                        !.touch = @ \cup {"storyQueue", "flashcardHistory"}]
         IN  IF isListening(c.status) /\ mode = "story"
             THEN startStorySession(w1, rnd.notes)
             ELSE w1

\* lines 302-338: the init/reset effect of the render with state s
InitEffect(s, w, rnd) ==
    IF isListening(s.status) /\ s.targetNote = Null /\ ~s.isGeneratingStory
    THEN IF s.gameMode = "story"
         THEN IF Len(s.storyQueue) = 0 THEN startStorySession(w, rnd.notes) ELSE w
         ELSE IF Len(s.flashcardHistory) = 0
              THEN LET initialNote == rnd.pick[NoExclude]
                   IN  [w EXCEPT !.flashcardHistory = <<initialNote>>,
                                 !.flashcardIndex = 0,
                                 !.targetNote = initialNote,
                                 !.perfectAttempt = TRUE,
                                 !.touch = @ \cup {"targetNote", "flashcardHistory"}]
              ELSE IF s.flashcardIndex = -1
                   THEN [w EXCEPT !.flashcardIndex = 0,
                                  !.targetNote = ItemAt(s.flashcardHistory, 0),
                                  !.touch = @ \cup {"targetNote"}]
                   ELSE w
    ELSE IF ~isListening(s.status)
    THEN [w EXCEPT !.currentSessionIdRef = 0,
                   !.targetNote = Null,
                   !.score = 0,
                   !.isMatched = FALSE,
                   !.perfectAttempt = TRUE,
                   !.showReward = FALSE,
                   !.storyText = EmptyString,
                   !.storyQueue = <<>>,
                   !.flashcardHistory = <<>>,
                   !.flashcardIndex = -1,
                   !.touch = @ \cup {"storyQueue", "flashcardHistory"}]
    ELSE w

\* lines 415-447: the match effect of the render with state s
MatchEffect(s, w) ==
    IF ~isListening(s.status) \/ s.targetNote = Null \/ s.currentNote = Null
           \/ w.processingMatchRef
    THEN w
    ELSE IF s.currentNote.note = s.targetNote.note
    THEN LET \* setTimeout returns an id no pending timer has
             id == CHOOSE i \in 1 .. (Cardinality(w.timers) + 2) :
                       i # w.matchTimerRef /\ \A t \in w.timers : t.id # i
         IN  [w EXCEPT !.processingMatchRef = TRUE,
                       !.isMatched = TRUE,
                       !.score = @ + 1,
                       !.showReward = IF s.perfectAttempt THEN TRUE ELSE @,
                       !.rewardTimers = IF s.perfectAttempt THEN @ + 1 ELSE @,
                       !.matchTimerRef = id,
                       \* the timer carries the state handleNext closes over
                       \* (its dependency list, line 411)
                       !.timers = @ \cup
                           {[id |-> id,
                             c  |-> [gameMode |-> s.gameMode, queueIndex |-> s.queueIndex,
                                     storyQueue |-> s.storyQueue,
                                     flashcardHistory |-> s.flashcardHistory,
                                     flashcardIndex |-> s.flashcardIndex,
                                     targetNote |-> s.targetNote]]}]
    ELSE IF ~s.isMatched /\ s.perfectAttempt
    THEN [w EXCEPT !.perfectAttempt = FALSE]
    ELSE w

\* the init/reset effect with isListening missing from its dependency list
InitDepsWithoutListening(s) ==
    <<s.targetNote, s.gameMode, Len(s.storyQueue),
      s.isGeneratingStory, Len(s.flashcardHistory), s.flashcardIndex>>

\* line 338: the dependency list of the init/reset effect
InitDeps(s) ==
    <<isListening(s.status), s.targetNote, s.gameMode, Len(s.storyQueue),
      s.isGeneratingStory, Len(s.flashcardHistory), s.flashcardIndex>>

\* line 447: the dependency list of the match effect, handleNext standing for
\* its own dependency list (line 411)
MatchDeps(s) ==
    <<s.currentNote, s.targetNote, isListening(s.status), s.isMatched,
      s.perfectAttempt, s.score,
      s.gameMode, s.queueIndex, s.storyQueue, s.flashcardHistory, s.flashcardIndex>>

\* the match effect with currentNote missing from its dependency list
MatchRunsWithoutNote(prev, s) ==
    \/ Tail(MatchDeps(prev)) # Tail(MatchDeps(s))
    \/ s.touch \cap {"targetNote", "storyQueue", "flashcardHistory"} # {}

MatchRuns(prev, s) ==
    \/ MatchDeps(prev) # MatchDeps(s)
    \/ s.touch \cap {"currentNote", "targetNote", "storyQueue", "flashcardHistory"} # {}

\* line 195: the dependency list of the speech effect, the voice left switched
\* on (audioEnabled, playAudio and stopCurrentAudio then never change)
SpeechDeps(s) ==
    <<s.queueIndex, s.gameMode, s.isGeneratingStory, isListening(s.status), s.storyQueue>>

\* the speech effect runs in the render with state s that follows the render
\* with state prev: setStoryQueue with a new array changes storyQueue even
\* when every item is as before
SpeechRuns(prev, s) ==
    SpeechDeps(prev) # SpeechDeps(s) \/ "storyQueue" \in s.touch

\* lines 175-194: what the speech effect of the render with state s calls
SpeechEffect(s) ==
    IF s.gameMode = "story" /\ ~s.isGeneratingStory /\ isListening(s.status)
    THEN LET currentItem == ItemAt(s.storyQueue, s.queueIndex)
         IN  IF currentItem # Null /\ currentItem.audioBase64 # NullStr
             THEN [call |-> "playAudio", index |-> s.queueIndex]
             ELSE [call |-> "none"]
    ELSE IF ~isListening(s.status) \/ s.gameMode # "story"
    THEN [call |-> "stopCurrentAudio"]
    ELSE [call |-> "none"]

\* the renders that follow a batch of state updates: prev is the state of the
\* last render, w the state now.  The effects whose dependencies changed run in
\* the order of their declaration, each reading the state of this render (s)
\* and the refs as they are; their updates lead to the next render.
RECURSIVE Render(_, _, _)
Render(prev, w, rnd) ==
    LET s  == w
        w0 == [w EXCEPT !.touch = {}]
        w1 == IF InitDeps(prev) # InitDeps(s) \/ "targetNote" \in s.touch
              THEN InitEffect(s, w0, rnd) ELSE w0
        w2 == IF MatchRuns(prev, s) THEN MatchEffect(s, w1) ELSE w1
    IN  IF w2 = w0 THEN w0 ELSE Render(w0, w2, rnd)

\* line 202, 216, 266, 273: the session's token is no longer the current one
NeverSuperseded(current, sessionId) == FALSE

Superseded(current, sessionId) == current # sessionId

\* the same with a failure of the text service reaching startStorySession: the
\* call ends at its await
TextResolvedOrThrown(w, s, svc) ==
    LET texts == generateStorySession(noteNames(s.newNotes), svc)
        rest  == w.sessions \ {s}
    IN  IF Superseded(w.currentSessionIdRef, s.sessionId) \/ svc \in {Throws, NonArray}
        THEN [w EXCEPT !.sessions = rest]
        ELSE [w EXCEPT !.sessions = rest \cup
                          {[s EXCEPT !.pc = "audio", !.service = svc, !.texts = texts]}]

\* line 263 resolves with the texts generateStorySession made of the service's
\* answer svc; lines 266-271
TextResolved(w, s, svc) ==
    LET texts == generateStorySession(noteNames(s.newNotes), svc)
        rest  == w.sessions \ {s}
    IN  IF Superseded(w.currentSessionIdRef, s.sessionId)
        THEN [w EXCEPT !.sessions = rest]
        ELSE [w EXCEPT !.sessions = rest \cup
                          {[s EXCEPT !.pc = "audio", !.service = svc, !.texts = texts]}]

\* line 279: texts[i] || `Play ${note.note}!`
TextAsIs(texts, i, note) == IF i <= Len(texts) THEN texts[i] ELSE EmptyString

TextOr(texts, i, note) ==
    IF i <= Len(texts) /\ texts[i] # EmptyString THEN texts[i] ELSE PlayText(note)

\* the initial batch taken to be every text of the session
BatchOfAllTexts(s, initialBatch, batchSize) ==
    IF s.pc = "audio" THEN Len(s.texts)
    ELSE Min(s.i + batchSize, Len(s.texts)) - s.i

\* the number of texts of the batch the session is waiting for
BatchLength(s, initialBatch, batchSize) ==
    IF s.pc = "audio" THEN Min(initialBatch, Len(s.texts))
    ELSE Min(s.i + batchSize, Len(s.texts)) - s.i

\* line 271 resolves with initialAudios; lines 273-297, and loadBackgroundAudio
\* (lines 198-213) up to its first await
InitialAudioResolved(w, s, initialAudios, initialBatch) ==
    LET rest     == w.sessions \ {s}
        newQueue ==
            [i \in 1 .. Len(s.newNotes) |->
                [note        |-> s.newNotes[i],
                 text        |-> TextOr(s.texts, i, s.newNotes[i].note),
                 audioBase64 |-> IF i <= Len(initialAudios)
                                 THEN initialAudios[i] ELSE NullStr]]
        w1 == [w EXCEPT !.storyQueue = newQueue,
                        !.queueIndex = 0,
                        !.targetNote = IF Len(newQueue) > 0 THEN newQueue[1].note ELSE @,
                        !.storyText = IF Len(newQueue) > 0 THEN newQueue[1].text ELSE @,
                        !.isGeneratingStory = FALSE,
                        !.touch = @ \cup {"targetNote", "storyQueue"}]
    IN  IF Superseded(w.currentSessionIdRef, s.sessionId)
        THEN [w EXCEPT !.sessions = rest]
        ELSE IF Len(s.texts) > initialBatch
        THEN [w1 EXCEPT !.sessions = rest \cup {[s EXCEPT !.pc = "fill", !.i = initialBatch]}]
        ELSE [w1 EXCEPT !.sessions = rest]

\* the updater writing the batch at the head of the queue
WriteBatchAtHead(prevQueue, i, batchAudio) ==
    [g \in 1 .. Len(prevQueue) |->
        IF g <= Len(batchAudio)
        THEN [prevQueue[g] EXCEPT !.audioBase64 = batchAudio[g]]
        ELSE prevQueue[g]]

\* lines 219-228: the updater of setStoryQueue applied to prevQueue
WriteBatch(prevQueue, i, batchAudio) ==
    [g \in 1 .. Len(prevQueue) |->
        IF g - 1 >= i /\ g - 1 < i + Len(batchAudio)
        THEN [prevQueue[g] EXCEPT !.audioBase64 = batchAudio[g - i]]
        ELSE prevQueue[g]]

\* line 213 resolves with batchAudio; lines 216-231 and the next iteration of
\* the loop (lines 200-213) up to its await
FillResolved(w, s, batchAudio, batchSize) ==
    LET rest == w.sessions \ {s}
        next == s.i + batchSize
    IN  IF Superseded(w.currentSessionIdRef, s.sessionId)
        THEN [w EXCEPT !.sessions = rest]
        ELSE [w EXCEPT !.storyQueue = WriteBatch(@, s.i, batchAudio),
                       !.touch = @ \cup {"storyQueue"},
                       !.sessions = IF next < Len(s.texts)
                                    THEN rest \cup {[s EXCEPT !.i = next]}
                                    ELSE rest]

---------------------------------------------------------------------------
(* The narration output of App: one output context, the source that       *)
(* currentSourceRef names, and the playAudio calls.  A call and the source *)
(* it starts are named by the call's number; 0 is null.  decodeAudioData   *)
(* has no await of its own, so the continuation of line 147 runs before    *)
(* any later event: a call is overtaken only at the await of resume().     *)

\* lines 114-115
PlayerIdle ==
    player = [outputAudioCtxRef |-> "none", currentSourceRef |-> 0,
              calls |-> <<>>, playing |-> {}]

\* lines 117-126
stopCurrentAudio(p) ==
    IF p.currentSourceRef # 0
    THEN [p EXCEPT !.playing = @ \ {p.currentSourceRef}, !.currentSourceRef = 0]
    ELSE p

\* lines 147-166: the source of call c is created, started and made the current one
SourceStarted(p, c) ==
    [p EXCEPT !.playing = @ \cup {c}, !.currentSourceRef = c, !.calls[c] = "done"]

\* lines 128-144: playAudio with the voice on and audio data, up to its await
\* of resume(); a context created here is suspended or running, as the
\* browser's autoplay policy has it
playAudio(p, suspended) ==
    LET c   == Len(p.calls) + 1
        ctx == IF p.outputAudioCtxRef = "none"
               THEN IF suspended THEN "suspended" ELSE "running"
               ELSE p.outputAudioCtxRef
        p1  == [stopCurrentAudio(p) EXCEPT !.outputAudioCtxRef = ctx,
                                           !.calls = Append(@, "resume")]
    IN  IF ctx = "suspended" THEN p1 ELSE SourceStarted(p1, c)

\* line 143 resolves for call c
PlayResumed(p, c) ==
    SourceStarted([p EXCEPT !.outputAudioCtxRef = "running"], c)

\* lines 162-166: the source has played to its end
SourceEnded(p, source) ==
    [p EXCEPT !.playing = @ \ {source},
              !.currentSourceRef = IF @ = source THEN 0 ELSE @]

---------------------------------------------------------------------------
(* Harness of the classifier: one call on one input *)

NotRun == [notRun |-> TRUE]

ClsIdle == clsFreq = AbsentHz /\ clsResult = NotRun

Classify ==
    /\ clsResult = NotRun
    /\ clsResult' = getNoteFromFrequency(clsFreq)
    /\ UNCHANGED <<player, speech, clsFreq, detVars, appVars, log>>

ClassifyNext == Classify

\* the argument: pitches from just under A0 to just over C8, and the
\* non-positive inputs
ClassifyInit ==
    /\ clsFreq \in {AbsentHz, [kind |-> "zero", pitch |-> 0], [kind |-> "negative", pitch |-> 0]}
            \cup {Hz(p) : p \in (MIDI_A0 * PitchRes - PitchRes) .. (MIDI_C8 * PitchRes + PitchRes)}
    /\ clsResult = NotRun
    /\ SpeechIdle /\ PlayerIdle /\ DetInit /\ AppInit /\ log = <<>>

SpecClassify == ClassifyInit /\ [][ClassifyNext]_vars

---------------------------------------------------------------------------
(* Harness of the Stability Gate: the hook driven as App drives it (one toggle    *)
(* button, disabled while loading) through one listening session whose start     *)
(* succeeds, with an observer recording every callback that finds the listening  *)
(* flag set, and the stop.  Restarts, failures and overlapping calls are left to *)
(* the specifications of the whole hook.                                         *)

C4Hz == Hz(60 * PitchRes)

D4Hz == Hz(62 * PitchRes)

Sample(f, gap) == [err |-> FALSE, f |-> f, gap |-> gap]

EstimatorError == [err |-> TRUE, f |-> AbsentHz, gap |-> 20]

\* lines 87-104: the callback reaches the "Commit the note" branch
CommitBranch(err, frequency, gap) ==
    LET detected == getNoteFromFrequency(frequency)
    IN  /\ isListeningRef /\ ~err
        /\ Positive(frequency) /\ ~Falsy(frequency)
        /\ detected # Null
        /\ formatNoteDisplay(detected) = candidateNoteRef
        /\ Commits(formatNoteDisplay(detected), Elapse(sinceCandidateStart, gap))

\* what the observer records of a callback
Observed(s) ==
    [kind   |-> "callback",
     err    |-> s.err,
     f      |-> s.f,
     gap    |-> s.gap,
     empty  |-> candidateNoteRef = NullStr /\ currentStableNoteRef = NullStr,
     commit |-> CommitBranch(s.err, s.f, s.gap),
     note   |-> currentNote',
     target |-> targetNote,
     score  |-> score]

Stopped == [kind |-> "stop"]

\* handleToggle of App, lines 458-464, behind the button's disabled={isLoading ...}
GateToggle ==
    /\ status # "loading"
    /\ IF status = "listening"
       THEN /\ stopListening
            /\ log' = IF log # <<>> /\ log[Len(log)] # Stopped
                      THEN Append(log, Stopped) ELSE log
       ELSE /\ callPc = <<>>
            /\ \E suspended \in BOOLEAN : startListening(suspended)
            /\ UNCHANGED log
    /\ UNCHANGED <<player, speech, clsVars, appVars>>

GateResumeResolved ==
    /\ \E c \in Calls : ResumeResolved(c)
    /\ UNCHANGED <<player, speech, log, clsVars, appVars>>

GateGotUserMedia ==
    /\ \E c \in Calls : GotUserMedia(c, TRUE)
    /\ UNCHANGED <<player, speech, log, clsVars, appVars>>

GateModelLoaded ==
    /\ \E c \in Calls : ModelLoaded(c)
    /\ UNCHANGED <<player, speech, log, clsVars, appVars>>

GateCallback ==
    /\ isListeningRef => Len(log) < MaxLog
    /\ \E d \in Calls,
          s \in {Sample(C4Hz, g) : g \in {20, 40, 110}}
                \cup {Sample(D4Hz, g) : g \in {20, 110}}
                \cup {Sample(AbsentHz, 20), Sample(Hz(MIDI_A0 * PitchRes - PitchRes), 20),
                      EstimatorError} :
          /\ handlePitch(d, s.err, s.f, s.gap)
          /\ log' = IF isListeningRef THEN Append(log, Observed(s)) ELSE log
    /\ UNCHANGED <<player, speech, clsVars, appVars>>

GateNext ==
    \/ GateToggle
    \/ GateResumeResolved
    \/ GateGotUserMedia
    \/ GateModelLoaded
    \/ GateCallback

GateInit == ClsIdle /\ SpeechIdle /\ PlayerIdle /\ DetInit /\ AppInit /\ log = <<>>

SpecGate == GateInit /\ [][GateNext]_vars

---------------------------------------------------------------------------
(* The application: the controller driven through its buttons (behind      *)
(* their disabled attributes), its timers and its story sessions, over the *)
(* pitch-detector hook.  Every step ends with the renders and effects it   *)
(* leads to.  The narration output (playAudio, stopCurrentAudio) reads     *)
(* this state and writes none of it.                                       *)

\* what Math.random gives a step of this specification
GameDraws ==
    {r \in [notes : NoteSequences(SessionLen),
            pick  : [TargetLetters \cup {NoExclude} -> generateRandomNote(3, 5, NoExclude)]] :
        \A x \in TargetLetters : r.pick[x] \in generateRandomNote(3, 5, x)}

\* the step ends in one of them, and the observer records its event
Controller(H, event) ==
    \E r \in ({Render(World, H[rnd], rnd) : rnd \in GameDraws}) :
        /\ r.score <= MaxScore
        /\ Len(r.flashcardHistory) <= MaxFlashcards
        /\ r.minted <= MaxSessions
        /\ r.rewardTimers <= MaxRewardTimers
        /\ Install(r)
        /\ ev' = event

\* a step of the hook: the controller re-renders with the new status and note
DetectorStep(touch, event) ==
    Controller([rnd \in GameDraws |-> [World EXCEPT !.status = status',
                                          !.currentNote = currentNote',
                                          !.touch = touch]], event)

\* the observer's record of a step of a story session: what it did (op is
\* "discard" when the session found itself superseded), and at publication the
\* session itself
SessionEvent(op, s) ==
    IF Superseded(currentSessionIdRef, s.sessionId)
    THEN [op |-> "discard", phase |-> s.pc, session |-> s.sessionId,
          current |-> currentSessionIdRef]
    ELSE IF op = "publish"
    THEN [op |-> op, phase |-> s.pc, session |-> s.sessionId,
          current |-> currentSessionIdRef, by |-> s]
    ELSE [op |-> op, phase |-> s.pc, session |-> s.sessionId,
          current |-> currentSessionIdRef]

\* lines 458-464 and 715-716
PressToggle ==
    /\ ~(status = "loading") /\ ~isGeneratingStory
    /\ IF isListening(status)
       THEN stopListening
       ELSE /\ Len(callPc) < MaxStarts
            /\ \E suspended \in BOOLEAN : startListening(suspended)
    /\ DetectorStep({}, Other)
    /\ UNCHANGED <<player, speech, clsVars, log>>

AudioResumed ==
    /\ \E c \in Calls : ResumeResolved(c)
    /\ DetectorStep({}, Other)
    /\ UNCHANGED <<player, speech, clsVars, log>>

MicrophoneAcquired ==
    /\ \E c \in Calls : GotUserMedia(c, TRUE)
    /\ DetectorStep({}, Other)
    /\ UNCHANGED <<player, speech, clsVars, log>>

ModelReady ==
    /\ \E c \in Calls : ModelLoaded(c)
    /\ DetectorStep({}, Other)
    /\ UNCHANGED <<player, speech, clsVars, log>>

PitchCallback ==
    /\ \E d \in Calls, s \in ({Sample(C4Hz, 110), Sample(D4Hz, 110)}) :
          /\ handlePitch(d, s.err, s.f, s.gap)
          /\ CommitBranch(s.err, s.f, s.gap) => Len(history) < MaxCommits
          /\ IF CommitBranch(s.err, s.f, s.gap)
             THEN DetectorStep({"currentNote"},
                               [op |-> "commit", note |-> currentNote'.note])
             ELSE DetectorStep({}, Other)
    /\ UNCHANGED <<player, speech, clsVars, log>>

\* lines 698-699
PressNext ==
    /\ isListening(status) /\ ~isMatched /\ ~isGeneratingStory
    /\ Controller([rnd \in GameDraws |-> handleNext(World, World, rnd)], Other)
    /\ UNCHANGED <<player, speech, clsVars, detVars, log>>

\* lines 683-684
PressPrevious ==
    /\ isListening(status) /\ ~isMatched /\ ~isGeneratingStory
    /\ ~(IF gameMode = "story" THEN queueIndex = 0 ELSE flashcardIndex <= 0)
    /\ Controller([rnd \in GameDraws |-> handlePrevious(World, World)], Other)
    /\ UNCHANGED <<player, speech, clsVars, detVars, log>>

\* lines 578-579 and 585-586
PressMode ==
    /\ ~isGeneratingStory
    /\ \E mode \in {"flashcard", "story"} :
          Controller([rnd \in GameDraws |-> toggleMode(World, World, mode, rnd)], Other)
    /\ UNCHANGED <<player, speech, clsVars, detVars, log>>

\* lines 434-437: a scheduled advance fires, 1500 ms after its match
AdvanceFires ==
    /\ \E t \in timers :
          Controller([rnd \in GameDraws |-> handleNext(t.c, [World EXCEPT !.timers = @ \ {t}], rnd)],
                     [op |-> "advance"])
    /\ UNCHANGED <<player, speech, clsVars, detVars, log>>

\* line 430: a reward hide fires, 2000 ms after its match
RewardHides ==
    /\ rewardTimers > 0
    /\ Controller([rnd \in GameDraws |-> [World EXCEPT !.rewardTimers = @ - 1,
                                             !.showReward = FALSE]], Other)
    /\ UNCHANGED <<player, speech, clsVars, detVars, log>>

\* the text request of a session is answered
SessionText(Answers) ==
    /\ \E s \in sessions :
          /\ s.pc = "text"
          /\ \E svc \in Answers[Len(s.newNotes)] :
                Controller([rnd \in GameDraws |-> TextResolved(World, s, svc)],
                           IF Superseded(currentSessionIdRef, s.sessionId)
                           THEN SessionEvent("text", s) ELSE Other)
    /\ UNCHANGED <<player, speech, clsVars, detVars, log>>

\* the initial speech batch of a session is answered
SessionInitialAudio(Results, initialBatch) ==
    /\ \E s \in sessions :
          /\ s.pc = "audio"
          /\ \E initialAudios \in Results[BatchLength(s, initialBatch, 0)] :
                Controller([rnd \in GameDraws |-> InitialAudioResolved(World, s, initialAudios,
                                                             initialBatch)],
                           SessionEvent("publish", s))
    /\ UNCHANGED <<player, speech, clsVars, detVars, log>>

\* a background speech batch of a session is answered
SessionFill(Results, batchSize) ==
    /\ \E s \in sessions :
          /\ s.pc = "fill"
          /\ \E batchAudio \in Results[BatchLength(s, 0, batchSize)] :
                Controller([rnd \in GameDraws |-> FillResolved(World, s, batchAudio, batchSize)],
                           SessionEvent("fill", s))
    /\ UNCHANGED <<player, speech, clsVars, detVars, log>>

Next ==
    \/ PressToggle
    \/ AudioResumed
    \/ MicrophoneAcquired
    \/ ModelReady
    \/ PitchCallback
    \/ PressNext
    \/ PressPrevious
    \/ PressMode
    \/ AdvanceFires
    \/ RewardHides
    \/ (SessionText(ServiceSucceeds))
    \/ (SessionInitialAudio(SpeechResults, InitialBatch))
    \/ (SessionFill(SpeechResults, FillBatch))

Init == ClsIdle /\ SpeechIdle /\ PlayerIdle /\ DetInit /\ AppInit /\ log = <<>>

Spec == Init /\ [][Next]_vars

---------------------------------------------------------------------------
(* A game over a capture session that is stopped and started again: the    *)
(* mode chosen before the first start, the toggle button, the steps of     *)
(* start(), the estimator's callbacks, the timers of the match effect and  *)
(* the steps of the story sessions.                                        *)

RestartNext ==
    \* lines 458-464 and 715-716
    \/ /\ ~(status = "loading") /\ ~isGeneratingStory
       /\ IF isListening(status)
          THEN stopListening
          ELSE /\ Len(callPc) < MaxHookStarts
               /\ \E suspended \in BOOLEAN : startListening(suspended)
       /\ DetectorStep({}, Other)
       /\ UNCHANGED <<player, speech, clsVars, log>>
    \/ AudioResumed
    \/ MicrophoneAcquired
    \/ ModelReady
    \/ PitchCallback
    \/ AdvanceFires
    \/ RewardHides
    \* lines 578-579 and 585-586, pressed before the first start
    \/ (status = "initial" /\ PressMode)
    \* the story sessions, every speech request answered with audio data
    \/ (SessionText(ServiceSucceeds))
    \/ (SessionInitialAudio(SpeechSucceeds, InitialBatch))
    \/ (SessionFill(SpeechSucceeds, FillBatch))

SpecRestart == Init /\ [][RestartNext]_vars

---------------------------------------------------------------------------
(* One story session of the program's own length: the detector listening,  *)
(* story mode chosen before the start, the session begun by the init       *)
(* effect; the text service and the synthesizer answer in every way.       *)

\* the hook after one successful start
ListeningFirst ==
    /\ status = "listening" /\ currentNote = Null /\ history = <<>> /\ error = NullStr
    /\ audioContextRef = 1 /\ streamRef = 1 /\ pitchDetectorRef = 1
    /\ isListeningRef = TRUE
    /\ candidateNoteRef = NullStr /\ sinceCandidateStart = 0
    /\ currentStableNoteRef = NullStr
    /\ callPc = <<"done">> /\ liveStreams = {1} /\ pending = <<1>>

\* arrays of up to SESSION_LENGTH + 2 sentences, none of them empty, the first or
\* the last of them empty
LongServiceAnswers[n \in 0 .. SESSION_LENGTH] ==
    {NoKey, Throws, NonArray}
        \cup {ServiceArray(q[1], q[2]) :
                q \in {p \in (0 .. (n + 2)) \X (0 .. (n + 2)) : p[2] \in {0, 1, n, p[1]}}}

TextNext ==
    \/ (SessionText(LongServiceAnswers))
    \/ (SessionInitialAudio(UniformSpeechResults, INITIAL_AUDIO_BATCH))
    \/ (SessionFill(UniformSpeechResults, BACKGROUND_BATCH))

TextInit ==
    /\ ClsIdle /\ SpeechIdle /\ PlayerIdle /\ log = <<>> /\ ListeningFirst /\ ev = Other
    /\ \E newNotes \in NoteSequences(SESSION_LENGTH) :
          Installed(startStorySession(Mounted("story"), newNotes))

SpecText == TextInit /\ [][TextNext]_vars

---------------------------------------------------------------------------
(* One story session of SessionLen notes whose requests fail in every way, *)
(* each request being answered in the end.                                 *)

FailingNext ==
    \/ (SessionText(LongServiceAnswers))
    \/ (SessionInitialAudio(SpeechResults, InitialBatch))
    \/ (SessionFill(SpeechResults, FillBatch))

FailingInit ==
    /\ ClsIdle /\ SpeechIdle /\ PlayerIdle /\ log = <<>> /\ ListeningFirst /\ ev = Other
    /\ \E newNotes \in NoteSequences(SessionLen) :
          Installed(startStorySession(Mounted("story"), newNotes))

SpecFailing == FailingInit /\ [][FailingNext]_vars /\ WF_vars(FailingNext)

---------------------------------------------------------------------------
(* One story session of the program's own length with a synthesizer that   *)
(* always succeeds; the text service answers in every way, and every       *)
(* request is answered in the end.                                         *)

FillNext ==
    \/ (SessionText(LongServiceAnswers))
    \/ (SessionInitialAudio(SpeechSucceeds, INITIAL_AUDIO_BATCH))
    \/ (SessionFill(SpeechSucceeds, BACKGROUND_BATCH))

SpecFill == TextInit /\ [][FillNext]_vars /\ WF_vars(FillNext)

---------------------------------------------------------------------------
(* One flashcard round end to end: the detector listening, the target E4,  *)
(* the estimator sampling a tone of E4 (329.63 Hz) and then silence, the   *)
(* timers of the match firing; no button is pressed.  The observer logs    *)
(* the callbacks with the time between them.                               *)

E4Hz == Hz(64 * PitchRes)

E4 == [note |-> "E", octave |-> 4]

\* the letters Math.random selects among in this specification
RoundLetters == {"C", "D", "E"}

\* what Math.random gives a step of this specification
RoundDraws ==
    {r \in [notes : {<<>>},
            pick  : [RoundLetters \cup {NoExclude} -> RandomNoteFrom(RoundLetters, {4}, NoExclude)]] :
        \A x \in RoundLetters : r.pick[x] \in RandomNoteFrom(RoundLetters, {4}, x)}

\* the step ends with the renders and effects the updates H[rnd] lead to
RoundController(H, event) ==
    \E r \in {Render(World, H[rnd], rnd) : rnd \in RoundDraws} :
        /\ Install(r)
        /\ ev' = event

RoundCallback ==
    /\ Len(log) < MaxRoundLog
    /\ \E d \in Calls,
          s \in {Sample(AbsentHz, 40), Sample(C4Hz, 110), Sample(D4Hz, 110),
                 Sample(E4Hz, 40), Sample(E4Hz, 50)} :
          /\ handlePitch(d, s.err, s.f, s.gap)
          /\ log' = Append(log, Observed(s))
          /\ RoundController([rnd \in RoundDraws |->
                                 [World EXCEPT !.currentNote = currentNote',
                                               !.touch = IF CommitBranch(s.err, s.f, s.gap)
                                                         THEN {"currentNote"} ELSE {}]],
                             IF CommitBranch(s.err, s.f, s.gap)
                             THEN [op |-> "commit", note |-> currentNote'.note]
                             ELSE Other)
    /\ UNCHANGED <<player, speech, clsVars>>

\* lines 434-437: the scheduled advance fires, 1500 ms after the match
RoundAdvanceFires ==
    /\ \E t \in timers :
          RoundController([rnd \in RoundDraws |->
                              handleNext(t.c, [World EXCEPT !.timers = @ \ {t}], rnd)],
                          [op |-> "advance"])
    /\ UNCHANGED <<player, speech, clsVars, detVars, log>>

\* line 430: the reward hide fires, 2000 ms after the match
RoundRewardHides ==
    /\ rewardTimers > 0
    /\ RoundController([rnd \in RoundDraws |->
                            [World EXCEPT !.rewardTimers = @ - 1,
                                          !.showReward = FALSE]], Other)
    /\ UNCHANGED <<player, speech, clsVars, detVars, log>>

RoundNext ==
    \/ RoundCallback
    \/ RoundAdvanceFires
    \/ RoundRewardHides

\* listening, and the init effect has drawn E4 as the first target
RoundInit ==
    /\ ClsIdle /\ SpeechIdle /\ PlayerIdle /\ log = <<>> /\ ListeningFirst /\ ev = Other
    /\ \E rnd \in RoundDraws :
          /\ rnd.pick[NoExclude] = E4
          /\ Installed(Render(Mounted("flashcard"),
                              [Mounted("flashcard") EXCEPT !.status = "listening"], rnd))

SpecRound == RoundInit /\ [][RoundNext]_vars

---------------------------------------------------------------------------
(* The capture session on its own: start() and stop() of usePitchDetector  *)
(* called in any order, every await of start() resolving or rejecting,     *)
(* the model loading or not, the estimator answering every request.        *)

StaleOf(e) == IF e = Other THEN ([d \in 1 .. MaxHookStarts |-> 0]) ELSE e.stale

\* the observer's record of a step of the capture session that is no callback
HookEvent(op, stale) == [op |-> op, stale |-> stale]

HookStart ==
    /\ Len(callPc) < MaxHookStarts
    /\ \E suspended \in BOOLEAN : startListening(suspended)
    /\ ev' = HookEvent("start", StaleOf(ev))
    /\ UNCHANGED <<player, speech, clsVars, appState, appRefs, appEnv, log>>

HookStop ==
    /\ stopListening
    /\ ev' = HookEvent("stop", [d \in 1 .. MaxHookStarts |->
                                    IF d \in Calls THEN pending[d] ELSE 0])
    /\ UNCHANGED <<player, speech, clsVars, appState, appRefs, appEnv, log>>

HookResumeResolved ==
    /\ \E c \in Calls : ResumeResolved(c)
    /\ ev' = HookEvent("resumed", StaleOf(ev))
    /\ UNCHANGED <<player, speech, clsVars, appState, appRefs, appEnv, log>>

HookAwaitRejected ==
    /\ \E c \in Calls : AwaitRejected(c)
    /\ ev' = HookEvent("failed", StaleOf(ev))
    /\ UNCHANGED <<player, speech, clsVars, appState, appRefs, appEnv, log>>

HookGotUserMedia ==
    /\ \E c \in Calls, ml5 \in BOOLEAN :
          /\ GotUserMedia(c, ml5)
          /\ ev' = HookEvent(IF ml5 THEN "stream" ELSE "failed", StaleOf(ev))
    /\ UNCHANGED <<player, speech, clsVars, appState, appRefs, appEnv, log>>

HookModelLoaded ==
    /\ \E c \in Calls : ModelLoaded(c)
    /\ ev' = HookEvent("model", StaleOf(ev))
    /\ UNCHANGED <<player, speech, clsVars, appState, appRefs, appEnv, log>>

HookModelUnavailable ==
    /\ \E c \in Calls : ModelUnavailable(c)
    /\ ev' = HookEvent("nomodel", StaleOf(ev))
    /\ UNCHANGED <<player, speech, clsVars, appState, appRefs, appEnv, log>>

\* the estimator answers the oldest request of detector d
HookCallback ==
    /\ \E d \in Calls,
          s \in {Sample(AbsentHz, 20), EstimatorError,
                 Sample(C4Hz, 110), Sample(D4Hz, 110)} :
          /\ handlePitch(d, s.err, s.f, s.gap)
          /\ ev' = [op       |-> "callback",
                    d        |-> d,
                    wasStale |-> StaleOf(ev)[d] > 0,
                    commit   |-> CommitBranch(s.err, s.f, s.gap),
                    full     |-> Len(history) = HISTORY_LIMIT,
                    stale    |-> IF StaleOf(ev)[d] > 0
                                 THEN Bump(StaleOf(ev), d, -1) ELSE StaleOf(ev)]
    /\ UNCHANGED <<player, speech, clsVars, appState, appRefs, appEnv, log>>

HookNext ==
    \/ HookStart
    \/ HookStop
    \/ HookResumeResolved
    \/ HookAwaitRejected
    \/ HookGotUserMedia
    \/ HookModelLoaded
    \/ HookModelUnavailable
    \/ HookCallback

HookInit == ClsIdle /\ SpeechIdle /\ PlayerIdle /\ DetInit /\ AppInit /\ log = <<>>

SpecHook == HookInit /\ [][HookNext]_vars

---------------------------------------------------------------------------
(* One call of generateSpeech, with or without an API key, the backend     *)
(* answering every request in any of its ways; every request is answered   *)
(* and every retry delay elapses.                                          *)

\* the call; the backend's answer to a request (audio data, a response without
\* data, or an error with status 429, with '429' in its message, with status
\* 503, or any other error); the end of a retry delay
SpeechNext ==
    \/ /\ speech.pc = "idle"
       /\ \E apiKey \in BOOLEAN :
            speech' = generateSpeech([speech EXCEPT !.apiKey = apiKey], 1)
       /\ UNCHANGED <<clsVars, detVars, appVars, log, player>>
    \/ /\ speech.pc = "request"
       /\ \E answer \in {"audio", "noData", "status429", "message429",
                          "status503", "otherError"} :
            speech' = SpeechAnswered(speech, answer)
       /\ UNCHANGED <<clsVars, detVars, appVars, log, player>>
    \/ /\ speech.pc = "wait"
       /\ speech' = SpeechRetried(speech)
       /\ UNCHANGED <<clsVars, detVars, appVars, log, player>>

SpeechInit == ClsIdle /\ SpeechIdle /\ PlayerIdle /\ DetInit /\ AppInit /\ log = <<>>

SpecSpeech == SpeechInit /\ [][SpeechNext]_vars /\ WF_vars(SpeechNext)

---------------------------------------------------------------------------
(* The narration output on its own, called as the speech effect and the    *)
(* handlers of App call it: playAudio for an item with audio, and          *)
(* stopCurrentAudio; every resume() resolves or rejects, and a source      *)
(* that sounds may play to its end.                                        *)

NarrationNext ==
    \* line 182
    \/ /\ Len(player.calls) < MaxPlays
       /\ \E suspended \in BOOLEAN : player' = playAudio(player, suspended)
       /\ UNCHANGED <<clsVars, detVars, appVars, log, speech>>
    \* lines 184, 192, 244, 336, 349, 380, 477
    \/ /\ player.currentSourceRef # 0
       /\ player' = stopCurrentAudio(player)
       /\ UNCHANGED <<clsVars, detVars, appVars, log, speech>>
    \/ /\ \E c \in 1 .. Len(player.calls) :
             player.calls[c] = "resume" /\ player' = PlayResumed(player, c)
       /\ UNCHANGED <<clsVars, detVars, appVars, log, speech>>
    \* line 143 rejects; lines 168-171
    \/ /\ \E c \in 1 .. Len(player.calls) :
             /\ player.calls[c] = "resume"
             /\ player' = [player EXCEPT !.calls[c] = "failed"]
       /\ UNCHANGED <<clsVars, detVars, appVars, log, speech>>
    \/ /\ \E source \in player.playing : player' = SourceEnded(player, source)
       /\ UNCHANGED <<clsVars, detVars, appVars, log, speech>>

SpecNarration == Init /\ [][NarrationNext]_vars

---------------------------------------------------------------------------
(* Claims about the frequency classifier, under SpecClassify *)

\* 27.5 <= f <= 4186 on the pitch grid
InClaimedRange(f) ==
    f.kind = "positive" /\ MIDI_A0 * PitchRes <= f.pitch /\ f.pitch < MIDI_C8 * PitchRes

NoteOfMidi(m) == [note |-> NOTE_NAMES[(m % 12) + 1], octave |-> (m \div 12) - 1]

SameNote(data, target) == data.note = target.note /\ data.octave = target.octave

CSharp4 == 61 * PitchRes

\* C8: getNoteFromFrequency returns null for every absent, zero or negative
\* frequency and for every frequency below 27.5 Hz or above 4186 Hz, and for every
\* frequency in between a NoteData whose note is one of the seven natural letters.
C8_NaturalOrNull ==
    clsResult # NotRun =>
        IF InClaimedRange(clsFreq)
        THEN clsResult # Null /\ clsResult.note \in ({NATURAL_NOTES[i] : i \in 1..Len(NATURAL_NOTES)})
        ELSE clsResult = Null

\* a pitch that rounds to the black key A#7 has been classified as a natural note
C8_Witness ==
    /\ clsResult # NotRun
    /\ clsFreq = Hz(106 * PitchRes + 1)
    /\ clsResult # Null
    /\ clsResult.note = "B"

\* C9: when the pitch rounds to a black-key semitone m, the result is the natural
\* neighbour m-1 for a pitch strictly below m and m+1 for a pitch at or above m;
\* a tone at C#4 resolves to C4 when nudged below, to D4 when nudged above or exact.
C9_SnapToNearestNatural ==
    clsResult # NotRun /\ InClaimedRange(clsFreq) =>
        LET p == clsFreq.pitch
            m == MathRound(p)
        IN  /\ (m % 12) \in sharpIndices =>
                 SameNote(clsResult, NoteOfMidi(IF p < m * PitchRes THEN m - 1 ELSE m + 1))
            /\ p = CSharp4 - 1 => SameNote(clsResult, [note |-> "C", octave |-> 4])
            /\ p = CSharp4     => SameNote(clsResult, [note |-> "D", octave |-> 4])
            /\ p = CSharp4 + 1 => SameNote(clsResult, [note |-> "D", octave |-> 4])

\* the pitch exactly at C#4 has been classified, and came out as D4
C9_Witness ==
    /\ clsResult # NotRun
    /\ clsFreq = Hz(CSharp4)
    /\ clsResult # Null
    /\ SameNote(clsResult, [note |-> "D", octave |-> 4])

---------------------------------------------------------------------------
(* Claims about the Stability Gate, under SpecGate *)

IsCallback(i) == i \in 1 .. Len(log) /\ log[i].kind = "callback"

\* the callback carried a sample (a frequency, not an estimator error)
IsSample(i) == IsCallback(i) /\ ~log[i].err

CommitAt(i) == IsCallback(i) /\ log[i].commit

\* the letter a sample classifies to, NullStr when its classification is null
LabelOf(i) ==
    LET d == getNoteFromFrequency(log[i].f)
    IN  IF d = Null THEN NullStr ELSE formatNoteDisplay(d)

IsSilence(i) == IsSample(i) /\ ~(Positive(log[i].f) /\ ~Falsy(log[i].f))

IsLetter(i, letter) == IsSample(i) /\ LabelOf(i) = letter

CommitsIn(a, b) == {k \in a .. b : CommitAt(k)}

\* samples i < j with no sample between them
ConsecutiveSamples(i, j) ==
    /\ i < j /\ IsSample(i) /\ IsSample(j)
    /\ \A k \in (i + 1) .. (j - 1) : ~IsSample(k)

CRun(i, n) ==
    /\ i >= 1 /\ i + n - 1 <= Len(log)
    /\ \A k \in i .. (i + n - 1) : IsLetter(k, "C")
    /\ log[i].empty
    /\ \A k \in (i + 1) .. (i + n - 1) : log[k].gap = 40

\* C6 as claimed: from an empty gate, three consecutive C samples delivered 40 ms
\* apart commit exactly one C event.
C6_ThreeSamplesCommitOnce ==
    \A i \in 1 .. Len(log) : CRun(i, 3) => Cardinality(CommitsIn(i, i + 2)) = 1

\* C6 as amended: from an empty gate, three consecutive C samples delivered 40 ms
\* apart (a span of 80 ms) commit nothing; the fourth such sample, 120 ms after
\* the first, commits C, and that is the only commit of the four.
C6_FourthSampleCommits ==
    \A i \in 1 .. Len(log) :
        /\ CRun(i, 3) => CommitsIn(i, i + 2) = {}
        /\ CRun(i, 4) => /\ CommitsIn(i, i + 3) = {i + 3}
                         /\ log[i + 3].note.note = "C"

\* four C samples 40 ms apart have been delivered to an empty gate
C6_Witness == CRun(1, 4) /\ CommitAt(4) /\ currentStableNoteRef = "C"

NoCommitYet ==
    /\ \A i \in 1 .. Len(log) : ~CommitAt(i)
    /\ currentNote = Null /\ history = <<>> /\ currentStableNoteRef = NullStr

NoTwoConsecutiveSameLetter ==
    \A i, j \in 1 .. Len(log) :
        ConsecutiveSamples(i, j) => ~(LabelOf(i) # NullStr /\ LabelOf(i) = LabelOf(j))

\* every sample is silence or classifies to a letter
NoOutOfRangeSample ==
    \A i \in 1 .. Len(log) : IsSample(i) => (IsSilence(i) \/ LabelOf(i) # NullStr)

\* C7 as claimed: a sample stream in which no two consecutive samples classify to
\* the same letter never commits: currentNote, lastCommitted and history stay
\* unchanged throughout.
C7_AlternatingNeverCommits == NoTwoConsecutiveSameLetter => NoCommitYet

\* C7 as amended: a sample stream in which every sample is silence or classifies
\* to a letter, and no two consecutive samples classify to the same letter, never
\* commits (a positive out-of-range frequency leaves the candidate in place, so
\* C, 26 Hz, C commits once C has been the candidate for more than 100 ms).
C7_LetterStreamNeverCommits ==
    (NoOutOfRangeSample /\ NoTwoConsecutiveSameLetter) => NoCommitYet

\* C, D, C, D delivered 110 ms apart, and nothing committed
C7_Witness ==
    /\ Len(log) = 4
    /\ IsLetter(1, "C") /\ IsLetter(2, "D") /\ IsLetter(3, "C") /\ IsLetter(4, "D")
    /\ \A i \in 2 .. 4 : log[i].gap = 110
    /\ NoCommitYet

---------------------------------------------------------------------------
(* Claims about the story queue, under SpecText *)

\* the text of item i of a queue built from the notes and the service's answer
ExpectedText(s, i) ==
    IF Present(s.service, i) THEN s.service.json[i]
    ELSE IF s.service = NoKey THEN HelpText(s.newNotes[i].note)
    ELSE PlayText(s.newNotes[i].note)

\* C10: whatever the text service answered (no key, an error, no array, an array
\* shorter or longer than 50, empty entries), the queue a session publishes has
\* exactly 50 items, item i carries the i-th generated note, and its text is
\* non-empty: the service's i-th string where present, a template otherwise.
C10_PublishedQueueIsComplete ==
    ev.op = "publish" =>
        /\ Len(storyQueue) = SESSION_LENGTH
        /\ \A i \in 1 .. SESSION_LENGTH :
              /\ storyQueue[i].note = ev.by.newNotes[i]
              /\ storyQueue[i].text # EmptyString
              /\ storyQueue[i].text = ExpectedText(ev.by, i)

\* 48 strings returned: 50 items, the last two with the fallback sentence
C10_Witness ==
    /\ ev.op = "publish"
    /\ ev.by.service = ServiceArray(48, 0)
    /\ Len(storyQueue) = 50
    /\ storyQueue[48].text = ServiceText(48)
    /\ storyQueue[49].text = PlayText(storyQueue[49].note.note)
    /\ storyQueue[50].text = PlayText(storyQueue[50].note.note)

---------------------------------------------------------------------------
(* Claims about the game session controller, under Spec *)

\* the step delivered a callback that committed a note
Committed == ev'.op = "commit"

\* C1: a commit whose letter is the target's, while listening with the latch
\* clear, sets isMatched, adds exactly 1 to score and schedules exactly one
\* advance; a commit that arrives while that advance is pending changes neither
\* score nor the pending advances.
C1_MatchCountsOnce ==
    [][ /\ (/\ Committed
            /\ isListening(status) /\ targetNote # Null /\ ~processingMatchRef
            /\ ev'.note = targetNote.note)
           => /\ isMatched'
              /\ score' = score + 1
              /\ timers \subseteq timers'
              /\ Cardinality(timers') = Cardinality(timers) + 1
        /\ (Committed /\ timers # {})
           => /\ score' = score
              /\ timers' = timers ]_vars

\* a note was committed while the advance of a match was pending
C1_Witness ==
    /\ ev.op = "commit"
    /\ isListening(status) /\ isMatched /\ score = 1
    /\ Cardinality(timers) = 1
    /\ targetNote # Null /\ ev.note # targetNote.note

\* C2: at most one scheduled advance is pending, it is the one matchTimerRef
\* names, and while one is pending the processing latch is set.
C2_OnePendingAdvance ==
    /\ Cardinality(timers) <= 1
    /\ \A t \in timers : t.id = matchTimerRef
    /\ timers # {} => processingMatchRef

\* an advance is pending in a listening session that has seen a manual next
C2_Witness ==
    /\ Cardinality(timers) = 1
    /\ processingMatchRef /\ isMatched
    /\ isListening(status)
    /\ flashcardIndex >= 1

\* C3: every write to the story queue (the publication of a session's queue, a
\* background batch) is made by the session whose token is the current token at
\* the time of the write, which is the session started last: no result of a
\* superseded or stopped session is written.
C3_OnlyCurrentSessionWrites ==
    ev.op \in {"fill", "publish"} =>
        /\ ev.session = ev.current
        /\ ev.session = minted
        /\ currentSessionIdRef = ev.session

\* a background batch of a session is answered after a newer session has
\* started, and is dropped
C3_Witness ==
    /\ ev.op = "discard" /\ ev.phase = "fill"
    /\ ev.current # 0 /\ ev.current # ev.session
    /\ currentSessionIdRef = ev.current

\* C4: while the detector is not listening no scheduled advance is pending
C4_NoAdvancePendingAfterStop ==
    ~isListening(status) => timers = {}

\* C11: a step that changes the story queue is the publication of a session's
\* queue, a step that clears it, or a background fill; a background fill keeps
\* the queue's length and every item's note and text, and changes an item's
\* audioBase64 only from null to a string.
C11_FillOnlyAddsAudio ==
    [][ /\ storyQueue' # storyQueue
           => ev'.op \in {"fill", "publish"} \/ storyQueue' = <<>>
        /\ ev'.op = "fill"
           => /\ Len(storyQueue') = Len(storyQueue)
              /\ \A g \in 1 .. Len(storyQueue) :
                    /\ storyQueue'[g].note = storyQueue[g].note
                    /\ storyQueue'[g].text = storyQueue[g].text
                    /\ \/ storyQueue'[g].audioBase64 = storyQueue[g].audioBase64
                       \/ /\ storyQueue[g].audioBase64 = NullStr
                          /\ storyQueue'[g].audioBase64 # NullStr ]_vars

\* a background batch has filled a slot behind the initial batch, whose audio
\* is in place
C11_Witness ==
    /\ ev.op = "fill"
    /\ Len(storyQueue) > InitialBatch
    /\ storyQueue[1].audioBase64 # NullStr
    /\ storyQueue[Len(storyQueue)].audioBase64 # NullStr

---------------------------------------------------------------------------
(* Claims about one flashcard round, under SpecRound *)

\* the first k callbacks are samples of the tone
ToneRun(k) == k \in 1 .. Len(log) /\ \A i \in 1 .. k : IsLetter(i, "E")

\* the time from the first sample to the k-th
RECURSIVE SpanTo(_)
SpanTo(k) == IF k <= 1 THEN 0 ELSE SpanTo(k - 1) + log[k].gap

\* the tone is over at callback k + 1, and its k samples are those of a tone of
\* 150 ms: it began after the callback before the first sample and ended before
\* callback k + 1
TonePlayed150(k) ==
    /\ ToneRun(k) /\ IsSilence(k + 1)
    /\ SpanTo(k) <= 150
    /\ log[1].gap + SpanTo(k) + log[k + 1].gap > 150

\* the round has been won: while the advance is pending the target is still E4
\* and isMatched is set; once it has fired isMatched is false and the target is
\* a note whose letter is not E
RoundWon ==
    /\ score = 1
    /\ IF timers # {}
       THEN isMatched /\ targetNote = E4
       ELSE ~isMatched /\ targetNote # Null /\ targetNote.note # "E"

\* C12 as claimed: with target E4 and the detector listening, a 329.63 Hz tone
\* sustained for 150 ms leads to isMatched = true and score = 1, and 1500 ms
\* after the match isMatched is false and the target is a new note whose letter
\* is not E.
C12_SustainedToneMatches ==
    \A k \in 1 .. Len(log) : TonePlayed150(k) => RoundWon

\* C12 as amended: the match happens at the first sample of the tone that is
\* delivered more than 100 ms after the first sample of it, and not before;
\* from then on score is 1, isMatched is true until the advance fires, and after
\* the advance isMatched is false and the target is a new note whose letter is
\* not E.
C12_LateSampleMatches ==
    \A k \in 1 .. Len(log) :
        ToneRun(k) =>
            /\ (SpanTo(k) > 100 /\ k = Len(log)) => RoundWon
            /\ (SpanTo(k) > 100) => score >= 1
            /\ (SpanTo(k) <= 100 /\ k = Len(log)) => (score = 0 /\ ~isMatched /\ targetNote = E4)

\* four samples of the tone 40 ms apart, the match, and the advance has fired
C12_Witness ==
    /\ ToneRun(4) /\ SpanTo(4) = 120 /\ Len(log) = 4
    /\ ev.op = "advance"
    /\ score = 1 /\ ~isMatched /\ timers = {}
    /\ targetNote = [note |-> "D", octave |-> 4]

\* the callback this step delivers is a commit of the target's letter that finds
\* the latch clear: the match of the round
MatchStep ==
    /\ log' # log
    /\ log'[Len(log')].commit
    /\ targetNote # Null /\ ~processingMatchRef
    /\ log'[Len(log')].note.note = targetNote.note

\* the callbacks delivered since the target became current: after the match
\* before it (the score is the number of matches) and with this target
InRound(i) ==
    /\ i \in 1 .. Len(log)
    /\ log[i].score = score /\ log[i].target = targetNote

\* no note with a letter different from the target's was committed in the round
PerfectRound ==
    \A i \in 1 .. Len(log) :
        (InRound(i) /\ log[i].commit) => log[i].note.note = targetNote.note

\* C13: at a match the celebratory signal fires (showReward is set and its hide
\* is scheduled) if and only if no note with a letter different from the
\* target's was committed between the moment the target became current and the
\* match, in every round.
C13_RewardIffPerfectRound ==
    [][ MatchStep =>
           ((showReward' /\ rewardTimers' = rewardTimers + 1) <=> PerfectRound) ]_vars

---------------------------------------------------------------------------
(* Claims about the capture session, under SpecHook *)

\* the pitch requests that have not delivered their callback
RECURSIVE OutstandingUpTo(_)
OutstandingUpTo(d) == IF d = 0 THEN 0 ELSE OutstandingUpTo(d - 1) + pending[d]

Outstanding == OutstandingUpTo(Len(pending))

\* C14: a start() call made while an earlier start() is in progress (status
\* loading) is ignored: it creates no audio context and begins no second
\* acquisition of the microphone.
C14_StartWhileLoadingIgnored ==
    [][ (status = "loading" /\ ev'.op = "start")
           => /\ audioContextRef' = audioContextRef
              /\ callPc' = callPc ]_vars

\* C15: the callback of a request that was outstanding at a stop() changes
\* neither candidate, lastCommitted, currentNote nor history and issues no
\* further request, also when start() was called again in between.
C15_StaleCallbackIsNoOp ==
    [][ (ev'.op = "callback" /\ ev'.wasStale)
           => /\ UNCHANGED <<candidateNoteRef, currentStableNoteRef, currentNote, history>>
              /\ pending' = Bump(pending, ev'.d, -1) ]_vars

\* C16: at most one pitch request is outstanding.
C16_OneOutstandingRequest == Outstanding <= 1

\* a start() fails at this step: its catch block sets the error message
StartFails == ev'.op = "failed"

\* C17: when start() fails the capture session ends in status 'error' with a
\* non-null error message, the listening flag false, the input stream released
\* and the Stability Gate cleared, and the status is 'error' for as long as the
\* message is there (until the next start()).
C17_FailedStartEndsInError ==
    [][ /\ StartFails
           => /\ status' = "error" /\ error' # NullStr
              /\ ~isListeningRef' /\ streamRef' = 0
              /\ candidateNoteRef' = NullStr /\ currentStableNoteRef' = NullStr
        /\ (error' # NullStr /\ ev'.op # "stop") => status' = "error" ]_vars

\* C18: history never holds more than 5 entries; a commit puts the committed
\* note at index 0, moves the earlier entries back by one position unchanged
\* and drops the entry that would fall at index 5; nothing else changes history.
C18_HistoryMostRecentFirst ==
    [][ /\ Len(history') <= 5
        /\ (ev'.op = "callback" /\ ev'.commit)
              => /\ Len(history') = Min(Len(history) + 1, 5)
                 /\ history'[1] = currentNote'
                 /\ \A i \in 2 .. Len(history') : history'[i] = history[i - 1]
        /\ ~(ev'.op = "callback" /\ ev'.commit) => history' = history ]_vars

\* a commit into a full history: the oldest entry has been dropped
C18_Witness ==
    /\ ev.op = "callback" /\ ev.commit /\ ev.full
    /\ Len(history) = 5
    /\ history[1] = currentNote
    /\ history[1].note # history[2].note

---------------------------------------------------------------------------
(* Claims about the speech synthesis call, under SpecSpeech *)

\* the backend has answered every request so far with a rate-limit error
OnlyRateLimited == \A i \in 1 .. Len(speech.answers) : Retryable(speech.answers[i])

\* apart from the numbers: an error that is no rate-limit error, a response
\* without data and a missing key end the call with null and without a retry
\* after them; the call has ended with a string or null; no request is made
\* once the call has ended
SpeechFailsSoft ==
    /\ \A i \in 1 .. Len(speech.answers) :
          ~Retryable(speech.answers[i]) => (i = Len(speech.answers) /\ speech.pc = "done")
    /\ speech.pc = "done" => speech.result \in {NullStr, "audio"}
    /\ speech.pc # "done" => speech.result = "pending"
    /\ (speech.pc = "done" /\ speech.result = "audio")
          => speech.answers[Len(speech.answers)] = "audio"
    /\ (speech.pc # "idle" /\ ~speech.apiKey) => (speech.pc = "done" /\ speech.requests = 0)
    /\ speech.requests = Len(speech.answers) + (IF speech.pc = "request" THEN 1 ELSE 0)
    /\ Len(speech.waits) = (IF speech.pc = "idle" \/ ~speech.apiKey THEN 0
                            ELSE IF speech.pc = "wait" THEN speech.attempt
                            ELSE speech.attempt - 1)

IsPrefix(a, b) == Len(a) <= Len(b) /\ \A i \in 1 .. Len(a) : a[i] = b[i]

\* C19 as claimed: at most 3 synthesis attempts when the backend keeps answering
\* with a rate-limit error, the waits being 1 s and then doubling, then null;
\* an error that is no rate-limit error returns null without retry; every call
\* ends with a string or null.
C19_ThreeAttemptsFromOneSecond ==
    /\ [](/\ SpeechFailsSoft
          /\ speech.requests <= 3
          /\ IsPrefix(speech.waits, <<1000, 2000>>)
          /\ (OnlyRateLimited /\ Len(speech.answers) = 3)
                => (speech.pc = "done" /\ speech.result = NullStr))
    /\ <>(speech.pc = "done")

\* C19 as amended: at most 4 synthesis attempts (3 retries) when the backend
\* keeps answering with a rate-limit error, the waits being 2 s, 4 s and 8 s,
\* then null; an error that is no rate-limit error returns null without retry;
\* every call ends with a string or null.
C19_FourAttemptsFromTwoSeconds ==
    /\ [](/\ SpeechFailsSoft
          /\ speech.requests <= 4
          /\ IsPrefix(speech.waits, <<2000, 4000, 8000>>)
          /\ (OnlyRateLimited /\ Len(speech.answers) = 4)
                => (speech.pc = "done" /\ speech.result = NullStr)
          /\ (OnlyRateLimited /\ Len(speech.answers) < 4 /\ speech.apiKey)
                => speech.pc # "done")
    /\ <>(speech.pc = "done")

\* four rate-limit answers in a row: three waits, then null
C19_Witness ==
    /\ speech.pc = "done" /\ speech.result = NullStr
    /\ speech.answers = <<"status429", "message429", "status503", "status429">>
    /\ speech.requests = 4
    /\ speech.waits = <<2000, 4000, 8000>>

---------------------------------------------------------------------------
(* Claims about a story session whose requests fail, under SpecFailing *)

\* C20: whatever the text service and the synthesizer answer (no key, an error,
\* no array, no audio), the session, which nothing supersedes, publishes its
\* queue in the end, with the target and the text of item 0 and
\* isGeneratingStory cleared, and stays so; the status and the error of the
\* capture session are never changed.
C20_FailuresNeverBlockTheSession ==
    /\ [](status = "listening" /\ error = NullStr)
    /\ [](ev.op = "publish"
            => /\ Len(storyQueue) = Len(ev.by.newNotes) /\ queueIndex = 0
               /\ targetNote = storyQueue[1].note
               /\ storyText = storyQueue[1].text
               /\ ~isGeneratingStory)
    /\ <>(ev.op = "publish")
    /\ <>[](~isGeneratingStory /\ storyQueue # <<>> /\ targetNote = storyQueue[1].note)

\* the text service threw and no speech was synthesized: the queue is published
\* with the fallback sentences and without audio
C20_Witness ==
    /\ ev.op = "publish" /\ ev.by.service = Throws
    /\ ~isGeneratingStory
    /\ targetNote = storyQueue[1].note
    /\ storyQueue[1].text = PlayText(storyQueue[1].note.note)
    /\ storyQueue[1].audioBase64 = NullStr
    /\ status = "listening" /\ error = NullStr

---------------------------------------------------------------------------
(* Further claims about the frequency classifier, under SpecClassify *)

\* C21: for a frequency in 27.5..4186 Hz the result's letter and octave are those
\* of the semitone m, NOTE_NAMES[m mod 12] and floor(m/12) - 1, where m is
\* round(69 + 12*log2(f/440)) moved to the nearer natural neighbour when it is a
\* black key; 440 Hz is A4, 261.63 Hz is C4, and cents is always 0.
C21_NoteAndOctaveFromSemitone ==
    clsResult # NotRun /\ InClaimedRange(clsFreq) =>
        LET p == clsFreq.pitch
            r == (2 * p + PitchRes) \div (2 * PitchRes)
            m == IF (r % 12) \in {1, 3, 6, 8, 10}
                 THEN IF p < r * PitchRes THEN r - 1 ELSE r + 1
                 ELSE r
        IN  /\ clsResult # Null
            /\ clsResult.note = NOTE_NAMES[(m % 12) + 1]
            /\ clsResult.octave = (m \div 12) - 1
            /\ clsResult.cents = 0
            /\ p = 69 * PitchRes => clsResult.note = "A" /\ clsResult.octave = 4
            /\ p = 60 * PitchRes => clsResult.note = "C" /\ clsResult.octave = 4

\* a pitch just under A#4, which rounds to the black key, has been classified as
\* A4: letter and octave are those of the semitone after the snap
C21_Witness ==
    /\ clsResult # NotRun
    /\ clsFreq = Hz(69 * PitchRes + PitchRes - 1)
    /\ clsResult # Null
    /\ clsResult.note = "A" /\ clsResult.octave = 4
    /\ clsResult.cents = 0

---------------------------------------------------------------------------
(* Further claims about the game session controller, under Spec *)

\* C22: a match is registered (score incremented, isMatched set, an advance
\* scheduled) only in a step in which the gate commits a note: no step that
\* installs a target (next, previous, scheduled advance, mode switch, session
\* publication, restart) registers a match against a note committed earlier.
C22_MatchOnlyOnNewCommit ==
    [][ (\/ score' = score + 1
         \/ ~isMatched /\ isMatched'
         \/ ~(timers' \subseteq timers))
           => Committed ]_vars

---------------------------------------------------------------------------
(* Further claims about the Stability Gate, under SpecGate *)

\* the step delivered a callback with a sample to a listening hook
SampleStep ==
    /\ Len(log') = Len(log) + 1
    /\ log'[Len(log')].kind = "callback" /\ ~log'[Len(log')].err

\* the sample the step delivered was silence: an absent or non-positive frequency
SilenceStep == ~(Positive(log'[Len(log')].f) /\ ~Falsy(log'[Len(log')].f))

\* the milliseconds from callback i to callback j
RECURSIVE GapsBetween(_, _)
GapsBetween(i, j) == IF j <= i THEN 0 ELSE log[j].gap + GapsBetween(i, j - 1)

\* callback j commits a note held since the callback after sample i, with no
\* silence and no other letter in between
CommitsAfter(i, j) ==
    /\ IsSample(i) /\ i < j /\ CommitAt(j)
    /\ \A k \in (i + 1) .. j :
          IsSample(k) => ~IsSilence(k) /\ LabelOf(k) \in {NullStr, LabelOf(j)}

\* C23 as claimed: every sample whose classification is null (silence, and also a
\* positive frequency outside 27.5-4186 Hz) clears the candidate and leaves
\* lastCommitted, currentNote and history unchanged, so a note interrupted by
\* such a sample commits only after a fresh hold of more than 100 ms.
C23_NullSampleClearsCandidate ==
    /\ [][ (SampleStep /\ getNoteFromFrequency(log'[Len(log')].f) = Null)
           => /\ candidateNoteRef' = NullStr
              /\ UNCHANGED <<currentStableNoteRef, currentNote, history>> ]_vars
    /\ [](\A i, j \in 1 .. Len(log) :
              (IsSample(i) /\ LabelOf(i) = NullStr /\ CommitsAfter(i, j))
                 => (j >= i + 2 /\ GapsBetween(i + 1, j) > STABILITY_THRESHOLD_MS))

\* C23 as amended: a silence sample (absent or non-positive frequency) clears the
\* candidate and leaves lastCommitted, currentNote and history unchanged, so a
\* note interrupted by silence commits only after a fresh hold of more than 100
\* ms; a positive frequency outside 27.5-4186 Hz changes none of the four, so the
\* hold of a note continues across it.
C23_SilenceClearsCandidate ==
    /\ [][ /\ (SampleStep /\ SilenceStep)
              => (/\ candidateNoteRef' = NullStr
                  /\ UNCHANGED <<currentStableNoteRef, currentNote, history>>)
           /\ (SampleStep /\ ~SilenceStep
                   /\ getNoteFromFrequency(log'[Len(log')].f) = Null)
              => UNCHANGED <<candidateNoteRef, currentStableNoteRef,
                             currentNote, history>> ]_vars
    /\ [](\A i, j \in 1 .. Len(log) :
              (IsSilence(i) /\ CommitsAfter(i, j))
                 => (j >= i + 2 /\ GapsBetween(i + 1, j) > STABILITY_THRESHOLD_MS))

\* C held for 80 ms, a 20 Hz rumble, and C again 20 ms later: the fifth sample
\* commits C, 120 ms after C became the candidate
C23_Witness ==
    /\ Len(log) = 5
    /\ IsLetter(1, "C") /\ IsLetter(2, "C") /\ IsLetter(3, "C") /\ IsLetter(5, "C")
    /\ IsSample(4) /\ ~IsSilence(4) /\ LabelOf(4) = NullStr
    /\ log[2].gap = 40 /\ log[3].gap = 40 /\ log[4].gap = 20 /\ log[5].gap = 20
    /\ CommitAt(5) /\ currentStableNoteRef = "C" /\ candidateNoteRef = "C"

\* C24: a sample with label L commits if and only if L is the candidate, the
\* candidate was set strictly more than 100 ms before, and L differs from
\* lastCommitted; the commit makes L lastCommitted and the sample's NoteData
\* currentNote.  A sample whose label differs from the candidate only makes L
\* the candidate, starting now, and never commits; a hold of exactly 100 ms
\* does not commit.
C24_CommitIffHeldAndNew ==
    [][ (SampleStep /\ getNoteFromFrequency(log'[Len(log')].f) # Null) =>
          LET sample   == log'[Len(log')]
              detected == getNoteFromFrequency(sample.f)
              L        == detected.note
              held     == sinceCandidateStart + sample.gap
          IN  /\ IF /\ L = candidateNoteRef
                    /\ held > 100
                    /\ L # currentStableNoteRef
                 THEN /\ currentStableNoteRef' = L
                      /\ currentNote' = detected
                      /\ history' # <<>> /\ history'[1] = detected
                 ELSE UNCHANGED <<currentStableNoteRef, currentNote, history>>
              /\ IF L # candidateNoteRef
                 THEN /\ candidateNoteRef' = L
                      /\ sinceCandidateStart' = 0
                      /\ UNCHANGED <<currentStableNoteRef, currentNote, history>>
                 ELSE UNCHANGED candidateNoteRef
              /\ held = 100 => UNCHANGED <<currentStableNoteRef, currentNote, history>> ]_vars

\* C has been held for exactly 100 ms (samples at 0, 20, 60 and 100 ms) and is
\* not committed
C24_Witness ==
    /\ Len(log) = 4
    /\ \A k \in 1 .. 4 : IsLetter(k, "C")
    /\ log[1].empty
    /\ log[2].gap = 20 /\ log[3].gap = 40 /\ log[4].gap = 40
    /\ candidateNoteRef = "C" /\ sinceCandidateStart = 100
    /\ currentNote = Null /\ currentStableNoteRef = NullStr

\* C25: whenever the capture session is not listening (before the first start,
\* after a stop, while a restart is loading) the controller is reset: no target,
\* score 0, isMatched false, perfectAttempt true, empty story queue, empty
\* flashcard history with cursor -1, and the session token invalidated.
C25_ResetWhileNotListening ==
    ~isListening(status) =>
        /\ targetNote = Null
        /\ score = 0
        /\ ~isMatched
        /\ perfectAttempt
        /\ storyQueue = <<>>
        /\ flashcardHistory = <<>> /\ flashcardIndex = -1
        /\ currentSessionIdRef = 0

\* a story session was started and notes were committed, and the capture
\* session has been stopped since
C25_Witness ==
    /\ status = "ready"
    /\ gameMode = "story" /\ minted >= 1
    /\ history # <<>>
    /\ targetNote = Null /\ storyQueue = <<>> /\ currentSessionIdRef = 0

\* the step switched the game mode
ModeSwitched == gameMode' # gameMode

\* C26: a switch to the other mode leaves score 0, isMatched false, the latch
\* clear, no advance pending and the story queue empty; the target is null and
\* the flashcard history empty with cursor -1, unless the session is listening
\* and the new mode is flashcard, where the initialisation effect draws the
\* first target at once; if the session is listening and the new mode is story,
\* exactly one new story session is started.
C26_ModeSwitchResets ==
    [][ ModeSwitched =>
          /\ score' = 0 /\ ~isMatched'
          /\ ~processingMatchRef' /\ timers' = {} /\ matchTimerRef' = 0
          /\ storyQueue' = <<>>
          /\ IF isListening(status) /\ gameMode' = "flashcard"
             THEN /\ Len(flashcardHistory') = 1 /\ flashcardIndex' = 0
                  /\ targetNote' = flashcardHistory'[1]
             ELSE /\ targetNote' = Null
                  /\ flashcardHistory' = <<>> /\ flashcardIndex' = -1
          /\ IF isListening(status) /\ gameMode' = "story"
             THEN /\ minted' = minted + 1
                  /\ currentSessionIdRef' = minted'
                  /\ Cardinality({s \in sessions' : s.sessionId = minted'}) = 1
                  /\ isGeneratingStory'
             ELSE minted' = minted ]_vars

---------------------------------------------------------------------------
(* Further claims about the capture session, under SpecHook *)

\* C27: status becomes 'listening' only from 'loading', in the model-loaded
\* callback of the most recent start(); once stop() has been called while the
\* session was loading (status 'ready'), the session does not become listening
\* and issues no pitch request until start() is called again.
C27_ListeningOnlyFromLoading ==
    [][ /\ (status' = "listening" /\ status # "listening")
           => /\ status = "loading"
              /\ callPc[Len(callPc)] = "model" /\ callPc'[Len(callPc)] = "done"
        /\ status = "ready"
           => /\ status' # "listening"
              /\ \A d \in 1 .. Len(pending) : pending'[d] <= pending[d] ]_vars

---------------------------------------------------------------------------
(* Further claims about the flashcard history and the story cursor, under Spec *)

\* the step stayed in flashcard mode and made the history longer
FlashcardAppended ==
    /\ gameMode = "flashcard" /\ gameMode' = "flashcard"
    /\ flashcardHistory # <<>>
    /\ Len(flashcardHistory') > Len(flashcardHistory)

\* the step stayed in flashcard mode and moved the cursor forward in the history
FlashcardForward ==
    /\ gameMode = "flashcard" /\ gameMode' = "flashcard"
    /\ flashcardHistory' = flashcardHistory
    /\ flashcardIndex >= 0 /\ flashcardIndex' > flashcardIndex

\* C28: in flashcard mode, next with the cursor at the end of the history
\* appends exactly one new natural-note target whose letter differs from the
\* current target's and moves the cursor onto it; next with the cursor inside
\* the history moves the cursor forward by one and generates nothing; adjacent
\* history entries never have the same letter.
C28_NextAppendsADifferentLetter ==
    /\ [](gameMode = "flashcard" /\ isListening(status) /\ targetNote # Null =>
            \A rnd \in GameDraws :
                LET r == handleNext(World, World, rnd)
                    n == Len(flashcardHistory)
                IN  IF flashcardIndex + 1 < n
                    THEN /\ r.flashcardHistory = flashcardHistory
                         /\ r.flashcardIndex = flashcardIndex + 1
                         /\ r.targetNote = flashcardHistory[flashcardIndex + 2]
                    ELSE /\ Len(r.flashcardHistory) = n + 1
                         /\ SubSeq(r.flashcardHistory, 1, n) = flashcardHistory
                         /\ r.flashcardHistory[n + 1].note
                                \in {NATURAL_NOTES[i] : i \in 1 .. Len(NATURAL_NOTES)}
                         /\ r.flashcardHistory[n + 1].note # targetNote.note
                         /\ r.flashcardIndex = flashcardIndex + 1
                         /\ r.targetNote = r.flashcardHistory[n + 1])
    /\ [][ /\ FlashcardAppended
              => /\ flashcardIndex = Len(flashcardHistory) - 1
                 /\ flashcardHistory' = Append(flashcardHistory, targetNote')
                 /\ targetNote'.note # targetNote.note
                 /\ flashcardIndex' = flashcardIndex + 1
           /\ FlashcardForward
              => /\ flashcardIndex' = flashcardIndex + 1
                 /\ targetNote' = flashcardHistory[flashcardIndex' + 1] ]_vars
    /\ [](\A i \in 1 .. (Len(flashcardHistory) - 1) :
              flashcardHistory[i].note # flashcardHistory[i + 1].note)

\* the cursor of the current mode is at index 0
CursorAtStart == IF gameMode = "story" THEN queueIndex = 0 ELSE flashcardIndex = 0

\* handlePrevious leaves the game state as it is
PreviousKeepsGame(r) ==
    /\ r.targetNote = targetNote
    /\ r.queueIndex = queueIndex /\ r.flashcardIndex = flashcardIndex
    /\ r.storyQueue = storyQueue /\ r.flashcardHistory = flashcardHistory
    /\ r.storyText = storyText
    /\ r.score = score /\ r.isMatched = isMatched
    /\ r.perfectAttempt = perfectAttempt
    /\ \A rnd \in GameDraws : Render(World, r, rnd) = [r EXCEPT !.touch = {}]

\* C29 as claimed: previous invoked with the cursor at index 0 is a no-op:
\* target, cursor, history and queue, score, isMatched, perfectAttempt, the
\* processing latch and any pending scheduled advance are left unchanged.
C29_PreviousAtStartIsNoOp ==
    CursorAtStart =>
        LET r == handlePrevious(World, World)
        IN  /\ PreviousKeepsGame(r)
            /\ r.processingMatchRef = processingMatchRef
            /\ r.timers = timers /\ r.matchTimerRef = matchTimerRef

\* C29 as amended: previous invoked with the cursor at index 0 leaves target,
\* cursor, history and queue, score, isMatched and perfectAttempt unchanged,
\* but it clears the processing latch and cancels the pending scheduled advance.
C29_PreviousAtStartOnlyClearsAdvance ==
    CursorAtStart =>
        LET r == handlePrevious(World, World)
        IN  /\ PreviousKeepsGame(r)
            /\ ~r.processingMatchRef
            /\ r.timers = {} /\ r.matchTimerRef = 0

\* the first flashcard has been matched and its advance is pending: previous
\* would cancel it
C29_Witness ==
    /\ gameMode = "flashcard" /\ flashcardIndex = 0
    /\ isMatched /\ processingMatchRef /\ Cardinality(timers) = 1
    /\ handlePrevious(World, World).timers = {}
    /\ handlePrevious(World, World).isMatched

\* the step began and ended in story mode with the same published queue of notes
SameStory ==
    /\ gameMode = "story" /\ gameMode' = "story"
    /\ storyQueue # <<>> /\ Len(storyQueue') = Len(storyQueue)
    /\ \A i \in 1 .. Len(storyQueue) : storyQueue'[i].note = storyQueue[i].note
    /\ ev'.op # "publish"

\* C30: in story mode, next moves the cursor forward by one and installs that
\* item's note and text while the cursor is not at the last item, and at the
\* last item starts an entirely new story session (new token; its publication
\* installs the new queue with the cursor at 0); previous moves the cursor back
\* by one when it is above 0; the cursor stays within 0..length-1 of the
\* published queue.
C30_StoryCursorWithinQueue ==
    /\ [](gameMode = "story" /\ isListening(status) /\ storyQueue # <<>>
             /\ ~isGeneratingStory =>
            /\ \A rnd \in GameDraws :
                  LET r == handleNext(World, World, rnd)
                  IN  IF queueIndex + 1 < Len(storyQueue)
                      THEN /\ r.queueIndex = queueIndex + 1
                           /\ r.targetNote = storyQueue[queueIndex + 2].note
                           /\ r.storyText = storyQueue[queueIndex + 2].text
                           /\ r.minted = minted /\ r.storyQueue = storyQueue
                      ELSE /\ r.minted = minted + 1
                           /\ r.currentSessionIdRef = r.minted
                           /\ r.currentSessionIdRef # currentSessionIdRef
                           /\ r.isGeneratingStory
                           /\ \E s \in r.sessions :
                                 s.sessionId = r.minted /\ s.newNotes = rnd.notes
            /\ queueIndex > 0 =>
                  LET r == handlePrevious(World, World)
                  IN  /\ r.queueIndex = queueIndex - 1
                      /\ r.targetNote = storyQueue[queueIndex].note
                      /\ r.storyText = storyQueue[queueIndex].text)
    /\ [][ /\ (SameStory /\ queueIndex' # queueIndex)
              => /\ queueIndex' \in {queueIndex - 1, queueIndex + 1}
                 /\ targetNote' = storyQueue[queueIndex' + 1].note
                 /\ storyText' = storyQueue[queueIndex' + 1].text
           /\ (SameStory /\ minted' # minted)
              => /\ queueIndex = Len(storyQueue) - 1
                 /\ minted' = minted + 1 /\ currentSessionIdRef' = minted'
                 /\ isGeneratingStory' ]_vars
    /\ [](ev.op = "publish" =>
              /\ queueIndex = 0
              /\ \A i \in 1 .. Len(storyQueue) : storyQueue[i].note = ev.by.newNotes[i])
    /\ [](gameMode = "story" /\ storyQueue # <<>> =>
              queueIndex \in 0 .. (Len(storyQueue) - 1))

---------------------------------------------------------------------------
(* Claims about a round of the game, under Spec *)

\* a note was committed while listening with a target, no match pending
CommitInOpenRound ==
    /\ Committed /\ isListening(status) /\ targetNote # Null
    /\ ~processingMatchRef /\ ~isMatched

\* C31: a committed note whose letter differs from the target's, received
\* while no match is pending, changes only perfectAttempt, which becomes false:
\* score, target, cursors, isMatched and the latch are unchanged and no advance
\* is scheduled; a matching commit later in the same round (perfectAttempt
\* already false) still sets isMatched, adds 1 to score and schedules an advance.
C31_MissOnlyTaintsPerfect ==
    [][ /\ (CommitInOpenRound /\ ev'.note # targetNote.note)
           => /\ ~perfectAttempt'
              /\ UNCHANGED <<score, targetNote, queueIndex, flashcardIndex, isMatched,
                             processingMatchRef, matchTimerRef, timers, showReward,
                             rewardTimers, storyQueue, storyText, flashcardHistory,
                             gameMode, isGeneratingStory, sessions>>
        /\ (CommitInOpenRound /\ ev'.note = targetNote.note /\ ~perfectAttempt)
           => /\ isMatched' /\ processingMatchRef' /\ score' = score + 1
              /\ Cardinality(timers') = Cardinality(timers) + 1
              /\ ~perfectAttempt' /\ UNCHANGED <<showReward, rewardTimers>> ]_vars

\* a round was matched after a miss: the match counted and earned no reward
C31_Witness ==
    /\ ev.op = "commit" /\ isListening(status) /\ targetNote # Null
    /\ ev.note = targetNote.note
    /\ isMatched /\ processingMatchRef /\ ~perfectAttempt /\ score = 1
    /\ Cardinality(timers) = 1 /\ ~showReward


\* the step made a target current: another note, or the note at another place
\* of the queue or of the history, or the first note of a published session
NewTargetCurrent ==
    /\ targetNote' # Null
    /\ \/ targetNote' # targetNote
       \/ queueIndex' # queueIndex
       \/ flashcardIndex' # flashcardIndex
       \/ ev'.op = "publish"

\* the renders of the step that made the target current already matched it
\* against the note committed before: the pending advance is the one of the
\* new target
MatchedOnArrival ==
    /\ isMatched' /\ processingMatchRef' /\ Cardinality(timers') = 1
    /\ \A t \in timers' : t.id = matchTimerRef' /\ t.c.targetNote = targetNote'

\* C32: whenever a new target becomes current (by next, previous, the
\* scheduled advance, the creation of the first target after a start or a mode
\* switch, or the publication of a story session) its round starts with
\* isMatched false, perfectAttempt true, the processing latch clear and no
\* advance pending.
C32_NewTargetStartsFreshRound ==
    [][ NewTargetCurrent =>
           \/ /\ ~isMatched' /\ perfectAttempt' /\ ~processingMatchRef'
              /\ timers' = {} /\ matchTimerRef' = 0
           \/ MatchedOnArrival ]_vars

---------------------------------------------------------------------------
(* Claims about the phases of a story session, under SpecText *)

\* C33: a story session publishes its queue (cursor 0, target the note of item
\* 0, isGeneratingStory false) only after its text batch and the speech batch
\* of its first INITIAL_AUDIO_BATCH items have resolved and before any speech
\* request for a later item is issued; at publication every later item has
\* audioBase64 null.
C33_PublishAfterInitialBatch ==
    /\ [][ ev'.op = "publish" =>
              /\ ev'.by \in sessions
              /\ ev'.by.pc = "audio" /\ ev'.by.i = 0
              /\ Len(ev'.by.texts) = SESSION_LENGTH
              /\ isGeneratingStory /\ storyQueue = <<>> ]_vars
    /\ [](ev.op = "publish" =>
              /\ queueIndex = 0 /\ ~isGeneratingStory
              /\ targetNote = storyQueue[1].note /\ storyText = storyQueue[1].text
              /\ \A g \in 1 .. Len(storyQueue) :
                    g > INITIAL_AUDIO_BATCH => storyQueue[g].audioBase64 = NullStr
              /\ \A s \in sessions : s.pc = "fill" /\ s.i = INITIAL_AUDIO_BATCH)
    /\ [](\A s \in sessions :
              s.pc \in {"text", "audio"} => isGeneratingStory /\ storyQueue = <<>>)

\* a session has published with the audio of its first ten items, the eleventh
\* without, and its first background request outstanding
C33_Witness ==
    /\ ev.op = "publish" /\ queueIndex = 0 /\ ~isGeneratingStory
    /\ Len(storyQueue) = SESSION_LENGTH
    /\ storyQueue[INITIAL_AUDIO_BATCH].audioBase64 = "audio"
    /\ storyQueue[INITIAL_AUDIO_BATCH + 1].audioBase64 = NullStr
    /\ \E s \in sessions : s.pc = "fill" /\ s.i = INITIAL_AUDIO_BATCH

---------------------------------------------------------------------------
(* Claims about the background fill, under SpecFill *)

\* the queue slots (counted from 0) from index a up to, not including, index b
\* all have audio
AudioIn(a, b) ==
    \A g \in 1 .. Len(storyQueue) :
        (g - 1 >= a /\ g - 1 < b) => storyQueue[g].audioBase64 # NullStr

\* and none of them has
NoAudioIn(a, b) ==
    \A g \in 1 .. Len(storyQueue) :
        (g - 1 >= a /\ g - 1 < b) => storyQueue[g].audioBase64 = NullStr

\* C34: the background fill of a published session that is neither superseded
\* nor stopped terminates, having requested speech for every item from index
\* INITIAL_AUDIO_BATCH on exactly once, in batches of 10 taken in index order,
\* each batch requested only after the results of the one before it were
\* written; the synthesizer always succeeding, in the end every item of the
\* queue has audio.
C34_FillCompletes ==
    /\ [](\A s \in sessions : s.pc = "fill" =>
              /\ s.i \in {INITIAL_AUDIO_BATCH + k * BACKGROUND_BATCH : k \in 0 .. 3}
              /\ AudioIn(0, s.i) /\ NoAudioIn(s.i, SESSION_LENGTH))
    /\ [][ ev'.op = "fill" =>
              \E s \in sessions :
                 /\ s.pc = "fill" /\ sessions = {s}
                 /\ \A g \in 1 .. SESSION_LENGTH :
                       IF g - 1 >= s.i /\ g - 1 < s.i + BACKGROUND_BATCH
                       THEN storyQueue'[g].audioBase64 = "audio"
                       ELSE storyQueue'[g] = storyQueue[g]
                 /\ IF s.i + BACKGROUND_BATCH < SESSION_LENGTH
                    THEN sessions' = {[s EXCEPT !.i = s.i + BACKGROUND_BATCH]}
                    ELSE sessions' = {} ]_vars
    /\ <>[](sessions = {} /\ Len(storyQueue) = SESSION_LENGTH
               /\ AudioIn(0, SESSION_LENGTH))

\* the last batch but one has been written and the last one is requested
C34_Witness ==
    /\ ev.op = "fill" /\ Len(storyQueue) = SESSION_LENGTH
    /\ \E s \in sessions : s.pc = "fill" /\ s.i = 40
    /\ AudioIn(0, 40) /\ NoAudioIn(40, SESSION_LENGTH)

---------------------------------------------------------------------------
(* Claims about the sampling loop, under SpecGate *)

\* the step delivered a callback that found the listening flag set
CallbackStep == Len(log') = Len(log) + 1 /\ log'[Len(log')].kind = "callback"

\* C35: when the estimator reports an error for a sample while the session is
\* listening, the loop issues exactly one new pitch request and leaves the
\* detection state (candidate, its start time, the last committed label,
\* currentNote, history, status, error) unchanged; the loop re-arms after every
\* callback, success or error, for as long as the session is listening.
C35_ErrorRearmsAndKeepsState ==
    /\ [][ /\ (CallbackStep /\ log'[Len(log')].err)
              => /\ UNCHANGED <<candidateNoteRef, currentStableNoteRef, currentNote,
                                history, status, error, detRefs>>
                 \* the start time is kept: the time since then grows by the gap
                 /\ sinceCandidateStart'
                       = Elapse(sinceCandidateStart, log'[Len(log')].gap)
                 /\ \E d \in Calls :
                       /\ pending[d] = 1
                       /\ pending' = Bump(Bump(pending, d, -1), pitchDetectorRef, 1)
           /\ CallbackStep
              => /\ isListening(status) /\ isListeningRef /\ pitchDetectorRef # 0
                 /\ pending' = pending ]_vars
    /\ [](isListening(status) =>
              /\ isListeningRef /\ pitchDetectorRef # 0
              /\ pending[pitchDetectorRef] = 1)

\* an error was reported while C was the candidate for 40 ms: the candidate and
\* its time are kept and one request is outstanding
C35_Witness ==
    /\ log # <<>> /\ log[Len(log)].kind = "callback" /\ log[Len(log)].err
    /\ isListening(status) /\ candidateNoteRef = "C" /\ sinceCandidateStart = 60
    /\ currentNote = Null /\ pending[pitchDetectorRef] = 1

---------------------------------------------------------------------------
(* Claims about the controller's invariants, under Spec *)

\* C37: isGeneratingStory is true only while the story session that holds the
\* current token is in its blocking phase (the text request or the initial
\* speech batch): once every started session has published, or has been
\* superseded or cancelled, isGeneratingStory is false, so the controls that
\* are disabled while generating do not stay locked.
C37_GeneratingOnlyWhileBlocking ==
    isGeneratingStory =>
        \E s \in sessions :
            s.sessionId = currentSessionIdRef /\ s.pc \in {"text", "audio"}


\* C38: whenever the session is listening, not generating and targetNote is
\* non-null, the target agrees with the cursor: in story mode queueIndex is
\* within the queue and targetNote and storyText are the note and text of the
\* item at queueIndex; in flashcard mode flashcardIndex is within the history
\* and targetNote is the history entry at flashcardIndex.
C38_TargetAgreesWithCursor ==
    (isListening(status) /\ ~isGeneratingStory /\ targetNote # Null) =>
        IF gameMode = "story"
        THEN /\ queueIndex >= 0 /\ queueIndex < Len(storyQueue)
             /\ targetNote = storyQueue[queueIndex + 1].note
             /\ storyText = storyQueue[queueIndex + 1].text
        ELSE /\ flashcardIndex >= 0 /\ flashcardIndex < Len(flashcardHistory)
             /\ targetNote = flashcardHistory[flashcardIndex + 1]

---------------------------------------------------------------------------
(* Claims about the microphone stream, under SpecHook *)

\* C39: a microphone stream is held only while the capture status is 'loading'
\* or 'listening': in status 'initial', 'ready' or 'error' no acquired stream
\* is left unreleased, after any interleaving of start, stop and the
\* completions of the audio context's resume and of getUserMedia.
C39_StreamOnlyWhileCapturing ==
    status \in {"error", "ready", "initial"} => liveStreams = {}

---------------------------------------------------------------------------
(* Claims about the narration of the story, under Spec *)

\* a background batch answered now for session s would be written to the queue
\* of a listening story game whose current item has audio and lies outside the
\* batch
FillBesideCurrentItem(s) ==
    /\ s.pc = "fill" /\ ~Superseded(currentSessionIdRef, s.sessionId)
    /\ gameMode = "story" /\ isListening(status) /\ ~isGeneratingStory
    /\ queueIndex + 1 \in 1 .. Len(storyQueue)
    /\ storyQueue[queueIndex + 1].audioBase64 # NullStr
    /\ ~(queueIndex >= s.i /\ queueIndex < s.i + FillBatch)

\* C40: in story mode the narration of the current item is started at most
\* once per arrival of the cursor at that item (or once when the item's audio
\* first becomes available): a background-fill write to other queue slots does
\* not start the current item's narration again.
C40_FillDoesNotRestartNarration ==
    \A s \in sessions :
        FillBesideCurrentItem(s) =>
            \A batchAudio \in SpeechResults[BatchLength(s, 0, FillBatch)] :
                LET r == FillResolved(World, s, batchAudio, FillBatch)
                IN  /\ r.queueIndex = queueIndex
                    /\ r.storyQueue[queueIndex + 1] = storyQueue[queueIndex + 1]
                    /\ ~(SpeechRuns(World, r) /\ SpeechEffect(r).call = "playAudio")


---------------------------------------------------------------------------
(* Claims about the narration output, under SpecNarration *)

\* C36: at most one narration sound is playing at any time; a sound that
\* starts finds the sound started before it stopped.
C36_OneSoundAtATime ==
    Cardinality(player.playing) <= 1

=============================================================================
